---------------------------- MODULE Spec2Model ----------------------------
(***************************************************************************)
(* Model of the comparison-operand capture engine of                       *)
(* frida_mode/src/cmplog/cmplog_x64.c: the instrumentation selector        *)
(* (cmplog_instrument), the operand evaluator (cmplog_get_operand_value,   *)
(* cmplog_read_mem) and the two capture callouts that write the shared     *)
(* comparison map (__afl_cmp_map).                                         *)
(*                                                                         *)
(* gsize values are 64 bits wide; they are kept as four 16-bit limbs,      *)
(* least significant first, so that wrap-around and the comparisons with   *)
(* G_MAXULONG are computed at the width the code computes them.            *)
(*                                                                         *)
(* The map dimensions (CMP_MAP_W, CMP_MAP_H, CMP_MAP_RTN_H) are set in     *)
(* cmplog.h, which is not among the sources; they are powers of two, and   *)
(* are taken small here so that a ring wraps within a few captures.  The   *)
(* layout of an entry is set there as well: log[k] is one array of bytes   *)
(* that both rings occupy, a struct cmpfn_operands (64 bytes) lying over   *)
(* two struct cmp_operands (32 bytes each), and hits is a field of         *)
(* CMP_HITS_BITS bits, to which the u32 the code computes is cut.  The     *)
(* header is a packed struct: hits fills its bytes 0..2, and type and      *)
(* shape are bits of its byte 6.                                           *)
(***************************************************************************)
EXTENDS Integers, Sequences, FiniteSets, TLC

(***************************************************************************)
(* 64-bit unsigned arithmetic (gsize, guint64)                             *)
(***************************************************************************)
LimbBase == 2^16

U64 == [1..4 -> 0..(LimbBase - 1)]

U64Of(n) == <<n % LimbBase, (n \div LimbBase) % LimbBase, 0, 0>>

G_MAXULONG == <<LimbBase - 1, LimbBase - 1, LimbBase - 1, LimbBase - 1>>

Zero64 == <<0, 0, 0, 0>>

\* a + b modulo 2^64
Add64(a, b) ==
  LET s1 == a[1] + b[1]
      s2 == a[2] + b[2] + (s1 \div LimbBase)
      s3 == a[3] + b[3] + (s2 \div LimbBase)
      s4 == a[4] + b[4] + (s3 \div LimbBase)
  IN  <<s1 % LimbBase, s2 % LimbBase, s3 % LimbBase, s4 % LimbBase>>

\* a - b modulo 2^64
Sub64(a, b) ==
  LET d1 == a[1] - b[1]
      d2 == a[2] - b[2] - (IF d1 < 0 THEN 1 ELSE 0)
      d3 == a[3] - b[3] - (IF d2 < 0 THEN 1 ELSE 0)
      d4 == a[4] - b[4] - (IF d3 < 0 THEN 1 ELSE 0)
  IN  <<d1 % LimbBase, d2 % LimbBase, d3 % LimbBase, d4 % LimbBase>>

\* a * s modulo 2^64, for a small factor s (an x86 scale: 1, 2, 4 or 8)
Mul64(a, s) ==
  LET p1 == a[1] * s
      p2 == a[2] * s + (p1 \div LimbBase)
      p3 == a[3] * s + (p2 \div LimbBase)
      p4 == a[4] * s + (p3 \div LimbBase)
  IN  <<p1 % LimbBase, p2 % LimbBase, p3 % LimbBase, p4 % LimbBase>>

Lt64(a, b) ==
  \/ a[4] < b[4]
  \/ a[4] = b[4] /\ a[3] < b[3]
  \/ a[4] = b[4] /\ a[3] = b[3] /\ a[2] < b[2]
  \/ a[4] = b[4] /\ a[3] = b[3] /\ a[2] = b[2] /\ a[1] < b[1]

Le64(a, b) == a = b \/ Lt64(a, b)

(***************************************************************************)
(* The comparison map (cmplog.h)                                           *)
(***************************************************************************)
CMP_MAP_W == 2

CMP_MAP_H == 4

CMP_MAP_RTN_H == 2

CMP_TYPE_NONE == "NONE"

CMP_TYPE_INS == "INS"

CMP_TYPE_RTN == "RTN"

Keys == 0..(CMP_MAP_W - 1)

Slots == 0..(CMP_MAP_H - 1)

\* hits & (cap - 1), for a power of two cap
RECURSIVE BitAnd(_, _)
BitAnd(x, m) ==
  IF x = 0 \/ m = 0 THEN 0
  ELSE 2 * BitAnd(x \div 2, m \div 2) + (IF x % 2 = 1 /\ m % 2 = 1 THEN 1 ELSE 0)

ClearedHeader == [type |-> CMP_TYPE_NONE, shape |-> 0, hits |-> 0]

\* the width in bits of the hits field of struct cmp_header: the counter a
\* capture stores is cut to it
CMP_HITS_BITS == 24

CMP_HITS_MAX == 2^CMP_HITS_BITS - 1

\* sizeof(struct cmp_operands): v0 at offset 0 and v1 at offset 8, then
\* v0_128 and v1_128
CMP_OPERANDS_SIZE == 32

\* sizeof(struct cmpfn_operands): v0[31], v0_len, v1[31], v1_len
CMPFN_OPERANDS_SIZE == 64

\* log[k] is one array of bytes, read as CMP_MAP_H struct cmp_operands or as
\* CMP_MAP_RTN_H struct cmpfn_operands
LogBytes == 0..(CMP_MAP_H * CMP_OPERANDS_SIZE - 1)

ClearedLog == [b \in LogBytes |-> 0]

\* byte j of a 64-bit value, little-endian
ByteOf64(v, j) == (v[(j \div 2) + 1] \div (IF j % 2 = 0 THEN 1 ELSE 256)) % 256

\* the 64-bit value in the 8 bytes from offset o
Load64(row, o) == [w \in 1..4 |-> row[o + 2 * (w - 1)] + 256 * row[o + 2 * (w - 1) + 1]]

\* ((struct cmp_operands *)log[k])[slot]: its v0 and v1
cmp_operands_at(row, slot) ==
  [v0 |-> Load64(row, slot * CMP_OPERANDS_SIZE),
   v1 |-> Load64(row, slot * CMP_OPERANDS_SIZE + 8)]

\* ((struct cmpfn_operands *)log[k])[slot]
cmpfn_operands_at(row, slot) ==
  LET o == slot * CMPFN_OPERANDS_SIZE
  IN  [v0 |-> [i \in 1..31 |-> row[o + i - 1]], v0_len |-> row[o + 31],
       v1 |-> [i \in 1..31 |-> row[o + 31 + i]], v1_len |-> row[o + 63]]

(***************************************************************************)
(* The target: CPU context and memory (ctx.h, frida_cmplog.h)              *)
(***************************************************************************)
X86_REG_INVALID == "invalid"

X86_REG_RIP == "rip"

X86_REG_RAX == "rax"

X86_REG_RBX == "rbx"

X86_REG_RDI == "rdi"

X86_REG_RSI == "rsi"

\* ctx_read_reg: reading a register always succeeds
ctx_read_reg(ctx, reg) == ctx[reg]

\* the one mapped range of the target: MemLen bytes from MemBase
MemLen == 48

MemBase == U64Of(4096)

MemLimit == Add64(MemBase, U64Of(MemLen))

\* cmplog_is_readable(address, size): [address, address + size) lies in mapped
\* memory and does not wrap around the address space
cmplog_is_readable(address, size) ==
  /\ Le64(MemBase, address)
  /\ Le64(address, Sub64(G_MAXULONG, U64Of(size)))
  /\ Le64(Add64(address, U64Of(size)), MemLimit)

\* what a read of an unmapped byte yields: the access faults
Fault == 0 - 1

\* the byte stored at an address
MemByte(mem, address) ==
  IF Le64(MemBase, address) /\ Lt64(address, MemLimit)
  THEN mem[Sub64(address, MemBase)[1]]
  ELSE Fault

\* *((guintN *)address): size bytes, little-endian, zero-extended to gsize
Deref(mem, address, size) ==
  LET b(i) == IF i < size THEN MemByte(mem, Add64(address, U64Of(i))) ELSE 0
      w(i) == IF b(i) = Fault \/ b(i + 1) = Fault THEN Fault ELSE b(i) + 256 * b(i + 1)
  IN  <<w(0), w(2), w(4), w(6)>>

\* gum_memcpy(dst, ptr, n): the n bytes at ptr
Snapshot(mem, ptr, n) == [i \in 1..n |-> MemByte(mem, Add64(ptr, U64Of(i - 1)))]

\* instrument_get_offset_hash: a deterministic map from code address to key
instrument_get_offset_hash(address) == address[1] % CMP_MAP_W

(***************************************************************************)
(* Operand descriptors (capstone cs_x86_op, cmplog_ctx_t)                  *)
(***************************************************************************)
X86_OP_INVALID == "X86_OP_INVALID"

X86_OP_REG == "X86_OP_REG"

X86_OP_IMM == "X86_OP_IMM"

X86_OP_MEM == "X86_OP_MEM"

\* an operand type value outside the three the evaluator knows
X86_OP_UNKNOWN == "X86_OP_UNKNOWN"

NoMem == [segment |-> X86_REG_INVALID, base |-> X86_REG_INVALID,
          index |-> X86_REG_INVALID, scale |-> 1, disp |-> Zero64]

OpInvalid == [type |-> X86_OP_INVALID, size |-> 0, reg |-> X86_REG_INVALID,
              imm |-> Zero64, mem |-> NoMem]

OpUnknown(size) == [type |-> X86_OP_UNKNOWN, size |-> size, reg |-> X86_REG_INVALID,
                    imm |-> Zero64, mem |-> NoMem]

OpReg(reg, size) == [type |-> X86_OP_REG, size |-> size, reg |-> reg,
                     imm |-> Zero64, mem |-> NoMem]

OpImm(imm, size) == [type |-> X86_OP_IMM, size |-> size, reg |-> X86_REG_INVALID,
                     imm |-> imm, mem |-> NoMem]

OpMem(mem, size) == [type |-> X86_OP_MEM, size |-> size, reg |-> X86_REG_INVALID,
                     imm |-> Zero64, mem |-> mem]

(***************************************************************************)
(* Operand evaluator                                                       *)
(***************************************************************************)
Fatal(where) == [ok |-> FALSE, fatal |-> where, val |-> Zero64]

Failed == [ok |-> FALSE, fatal |-> "", val |-> Zero64]

Value(v) == [ok |-> TRUE, fatal |-> "", val |-> v]

\* an address computed without the scale: base + index + disp
cmplog_mem_address_unscaled(context, mem) ==
  LET base  == IF mem.base # X86_REG_INVALID
               THEN ctx_read_reg(context, mem.base) ELSE Zero64
      index == IF mem.index # X86_REG_INVALID
               THEN ctx_read_reg(context, mem.index) ELSE Zero64
  IN  Add64(Add64(base, index), mem.disp)

\* the address of a memory operand: base + (index * scale) + disp
cmplog_mem_address(context, mem) ==
  LET base  == IF mem.base # X86_REG_INVALID
               THEN ctx_read_reg(context, mem.base) ELSE Zero64
      index == IF mem.index # X86_REG_INVALID
               THEN ctx_read_reg(context, mem.index) ELSE Zero64
  IN  Add64(Add64(base, Mul64(index, mem.scale)), mem.disp)

\* a memory read that does not probe the address first
cmplog_read_mem_unprobed(context, memory, size, mem) ==
  LET address == cmplog_mem_address(context, mem)
  IN  IF size \in {1, 2, 4, 8} THEN Value(Deref(memory, address, size))
      ELSE Fatal("cmplog_read_mem")

cmplog_read_mem(context, memory, size, mem) ==
  LET address == cmplog_mem_address(context, mem)
  IN  IF ~cmplog_is_readable(address, size) THEN Failed
      ELSE IF size \in {1, 2, 4, 8} THEN Value(Deref(memory, address, size))
      ELSE Fatal("cmplog_read_mem")

cmplog_get_operand_value(context, memory, ctx) ==
  CASE ctx.type = X86_OP_REG -> Value(ctx_read_reg(context, ctx.reg))
    [] ctx.type = X86_OP_IMM -> Value(ctx.imm)
    [] ctx.type = X86_OP_MEM -> cmplog_read_mem(context, memory, ctx.size, ctx.mem)
    [] OTHER -> Fatal("cmplog_get_operand_value")

(***************************************************************************)
(* Instrumentation selector                                                *)
(***************************************************************************)
X86_INS_CALL == "X86_INS_CALL"

X86_INS_MOV == "X86_INS_MOV"

\* the instruction ids cmplog_instrument_cmp_sub lets through
CmpSubFamily ==
  {"X86_INS_CMP", "X86_INS_SUB", "X86_INS_SCASB", "X86_INS_SCASD",
   "X86_INS_SCASQ", "X86_INS_SCASW", "X86_INS_CMPSB", "X86_INS_CMPSD",
   "X86_INS_CMPSQ", "X86_INS_CMPSS", "X86_INS_CMPSW"}

NoCtx == [type |-> X86_OP_INVALID, size |-> 0, reg |-> X86_REG_INVALID,
          imm |-> Zero64, mem |-> NoMem]

NoUserData == [operand1 |-> NoCtx, operand2 |-> NoCtx]

\* cmplog_instrument_put_operand: the descriptor copied by value; only the
\* union member of the operand's type is copied
cmplog_instrument_put_operand(operand) ==
  CASE operand.type = X86_OP_REG ->
         [fatal |-> "", ctx |-> [NoCtx EXCEPT !.type = operand.type,
                                              !.size = operand.size, !.reg = operand.reg]]
    [] operand.type = X86_OP_IMM ->
         [fatal |-> "", ctx |-> [NoCtx EXCEPT !.type = operand.type,
                                              !.size = operand.size, !.imm = operand.imm]]
    [] operand.type = X86_OP_MEM ->
         [fatal |-> "", ctx |-> [NoCtx EXCEPT !.type = operand.type,
                                              !.size = operand.size, !.mem = operand.mem]]
    [] OTHER ->
         [fatal |-> "cmplog_instrument_put_operand",
          ctx |-> [NoCtx EXCEPT !.type = operand.type, !.size = operand.size]]

\* cmplog_instrument_call: TRUE when cmplog_call_callout is attached
cmplog_instrument_call(instr) ==
  /\ instr.id = X86_INS_CALL
  /\ instr.op_count = 1
  /\ instr.operands[1].type # X86_OP_INVALID
  /\ ~(/\ instr.operands[1].type = X86_OP_MEM
       /\ instr.operands[1].mem.segment # X86_REG_INVALID)

\* a selector without the single-byte exclusion
cmplog_cmp_sub_selected_bytes(instr) ==
  /\ instr.id \in CmpSubFamily
  /\ instr.op_count = 2
  /\ instr.operands[1].type # X86_OP_INVALID
  /\ instr.operands[2].type # X86_OP_INVALID

\* the checks of cmplog_instrument_cmp_sub that precede put_callout
cmplog_cmp_sub_selected(instr) ==
  /\ instr.id \in CmpSubFamily
  /\ instr.op_count = 2
  /\ instr.operands[1].type # X86_OP_INVALID
  /\ instr.operands[2].type # X86_OP_INVALID
  /\ instr.operands[1].size # 1

\* cmplog_instrument_cmp_sub_put_callout: the context the callout carries
cmplog_instrument_cmp_sub_put_callout(operand1, operand2) ==
  LET c1 == cmplog_instrument_put_operand(operand1)
      c2 == cmplog_instrument_put_operand(operand2)
  IN  IF c1.fatal # "" THEN [fatal |-> c1.fatal, attached |-> FALSE, user_data |-> NoUserData]
      ELSE IF c2.fatal # "" THEN [fatal |-> c2.fatal, attached |-> FALSE, user_data |-> NoUserData]
      ELSE [fatal |-> "", attached |-> TRUE,
            user_data |-> [operand1 |-> c1.ctx, operand2 |-> c2.ctx]]

cmplog_instrument_cmp_sub(instr) ==
  IF cmplog_cmp_sub_selected(instr)
  THEN cmplog_instrument_cmp_sub_put_callout(instr.operands[1], instr.operands[2])
  ELSE [fatal |-> "", attached |-> FALSE, user_data |-> NoUserData]

(***************************************************************************)
(* Map updates                                                             *)
(***************************************************************************)
\* the 31 bytes a call-site capture copies from each pointer
RTN_LEN == 31

\* a call-site capture that indexes the ring with the unmasked counter
cmplog_rtn_slot_unmasked(hits) == hits

\* the ring slot a call-site capture writes: hits &= CMP_MAP_RTN_H - 1
cmplog_rtn_slot(hits) == BitAnd(hits, CMP_MAP_RTN_H - 1)

\* a comparison capture that masks the incremented counter
cmplog_ins_slot_next(hits) == BitAnd(hits + 1, CMP_MAP_H - 1)

\* the ring slot a comparison capture writes: hits &= CMP_MAP_H - 1
cmplog_ins_slot(hits) == BitAnd(hits, CMP_MAP_H - 1)

\* a call-site capture that restarts the counter but leaves the type
cmplog_call_header_keeptype(h) ==
  LET h1   == IF h.type # CMP_TYPE_RTN THEN [h EXCEPT !.hits = 0] ELSE h
      hits == IF h1.hits = 0 THEN 0 ELSE h1.hits
      h2   == IF h1.hits = 0 THEN [h1 EXCEPT !.shape = 30] ELSE h1
  IN  [h2 EXCEPT !.hits = (hits + 1) % 2^CMP_HITS_BITS]

\* a call-site capture that sets the type but does not restart the counter
cmplog_call_header_norestart(h) ==
  LET h1   == IF h.type # CMP_TYPE_RTN THEN [h EXCEPT !.type = CMP_TYPE_RTN] ELSE h
      hits == IF h1.hits = 0 THEN 0 ELSE h1.hits
      h2   == IF h1.hits = 0 THEN [h1 EXCEPT !.shape = 30] ELSE h1
  IN  [h2 EXCEPT !.hits = (hits + 1) % 2^CMP_HITS_BITS]

\* the header after a call-site capture (cmplog_call_callout, lines 99-113)
cmplog_call_header(h) ==
  LET h1   == IF h.type # CMP_TYPE_RTN
              THEN [h EXCEPT !.type = CMP_TYPE_RTN, !.hits = 0] ELSE h
      hits == IF h1.hits = 0 THEN 0 ELSE h1.hits
      h2   == IF h1.hits = 0 THEN [h1 EXCEPT !.shape = 30] ELSE h1
  IN  [h2 EXCEPT !.hits = (hits + 1) % 2^CMP_HITS_BITS]

\* the local `hits` of cmplog_call_callout before it is masked
cmplog_call_hits(h) == IF h.type # CMP_TYPE_RTN THEN 0 ELSE h.hits

\* a comparison capture without the restart of lines 167-168
cmplog_cmp_sub_header_norelearn(h, size) ==
  LET hits == IF h.hits = 0 THEN 0 ELSE h.hits
      h2   == IF h.hits = 0
              THEN [h EXCEPT !.type = CMP_TYPE_INS, !.shape = size - 1] ELSE h
  IN  [h2 EXCEPT !.hits = (hits + 1) % 2^CMP_HITS_BITS]

\* a comparison capture that stores the masked counter
cmplog_cmp_sub_header_masked(h, size) ==
  LET h1   == IF h.type # CMP_TYPE_INS THEN [h EXCEPT !.hits = 0] ELSE h
      hits == IF h1.hits = 0 THEN 0 ELSE h1.hits
      h2   == IF h1.hits = 0
              THEN [h1 EXCEPT !.type = CMP_TYPE_INS, !.shape = size - 1] ELSE h1
  IN  [h2 EXCEPT !.hits = BitAnd(hits + 1, CMP_MAP_H - 1)]

\* a comparison capture that records the shape on every hit
cmplog_cmp_sub_header_reshape(h, size) ==
  LET h1   == IF h.type # CMP_TYPE_INS THEN [h EXCEPT !.hits = 0] ELSE h
      hits == IF h1.hits = 0 THEN 0 ELSE h1.hits
  IN  [h1 EXCEPT !.type = CMP_TYPE_INS, !.shape = size - 1, !.hits = (hits + 1) % 2^CMP_HITS_BITS]

\* the header after a comparison capture (cmplog_handle_cmp_sub, lines 167-180)
cmplog_cmp_sub_header(h, size) ==
  LET h1   == IF h.type # CMP_TYPE_INS THEN [h EXCEPT !.hits = 0] ELSE h
      hits == IF h1.hits = 0 THEN 0 ELSE h1.hits
      h2   == IF h1.hits = 0
              THEN [h1 EXCEPT !.type = CMP_TYPE_INS, !.shape = size - 1] ELSE h1
  IN  [h2 EXCEPT !.hits = (hits + 1) % 2^CMP_HITS_BITS]

\* a local `hits` read from the header before the restart of line 168
cmplog_cmp_sub_hits_stale(h) == h.hits

\* the local `hits` of cmplog_handle_cmp_sub before it is masked
cmplog_cmp_sub_hits(h) == IF h.type # CMP_TYPE_INS THEN 0 ELSE h.hits

\* the record a call-site capture stores (lines 116-121)
RtnRecord(mem, ptr1, ptr2) ==
  [v0 |-> Snapshot(mem, ptr1, RTN_LEN), v0_len |-> RTN_LEN,
   v1 |-> Snapshot(mem, ptr2, RTN_LEN), v1_len |-> RTN_LEN]

\* log[k] after lines 116-121 have stored the record in
\* ((struct cmpfn_operands *)log[k])[slot]
cmplog_call_store(row, slot, record) ==
  [b \in LogBytes |->
     LET o == b - slot * CMPFN_OPERANDS_SIZE
     IN  IF o \in 0..30 THEN record.v0[o + 1]
         ELSE IF o = 31 THEN record.v0_len
         ELSE IF o \in 32..62 THEN record.v1[o - 31]
         ELSE IF o = 63 THEN record.v1_len
         ELSE row[b]]

\* the record a comparison capture stores (lines 182-183)
InsRecord(operand1, operand2) == [v0 |-> operand1, v1 |-> operand2]

\* log[k] after lines 182-183 have stored v0 and v1 of log[k][slot]; the
\* other bytes of the slot stay as they are
cmplog_cmp_sub_store(row, slot, record) ==
  [b \in LogBytes |->
     LET o == b - slot * CMP_OPERANDS_SIZE
     IN  IF o \in 0..7 THEN ByteOf64(record.v0, o)
         ELSE IF o \in 8..15 THEN ByteOf64(record.v1, o - 8)
         ELSE row[b]]

\* pointer checks that test for the top of the address space only
cmplog_call_readable_top(rdi, rsi) ==
  ~(Lt64(Sub64(G_MAXULONG, rdi), U64Of(RTN_LEN)) \/ Lt64(Sub64(G_MAXULONG, rsi), U64Of(RTN_LEN)))

\* pointer checks that look at the first pointer only
cmplog_call_readable_rdi(rdi, rsi) ==
  /\ ~Lt64(Sub64(G_MAXULONG, rdi), U64Of(RTN_LEN))
  /\ cmplog_is_readable(rdi, RTN_LEN)

\* the pointer checks of cmplog_call_callout (lines 90 and 92)
cmplog_call_readable(rdi, rsi) ==
  /\ ~(Lt64(Sub64(G_MAXULONG, rdi), U64Of(RTN_LEN)) \/ Lt64(Sub64(G_MAXULONG, rsi), U64Of(RTN_LEN)))
  /\ ~(~cmplog_is_readable(rdi, RTN_LEN) \/ ~cmplog_is_readable(rsi, RTN_LEN))

(***************************************************************************)
(* Inputs: the instructions handed to the selector and the CPU states the  *)
(* target presents to the callouts                                         *)
(***************************************************************************)
\* number of captures after which the target stops
MaxCaptures == 5

\* the code addresses, one for each key
Addrs == 0..(CMP_MAP_W - 1)

CodeBase == U64Of(2 * LimbBase)

\* the value the target compares against
CmpConst == 7

CodeAddress(a) == Add64(CodeBase, U64Of(a))

MemAt(base) == [NoMem EXCEPT !.base = base]

Insn(id, n, op1, op2) == [id |-> id, op_count |-> n, operands |-> <<op1, op2>>]

Program ==
  { Insn(X86_INS_CALL, 1, OpReg(X86_REG_RAX, 8), OpInvalid),
    Insn(X86_INS_CALL, 1, OpMem([MemAt(X86_REG_RBX) EXCEPT !.segment = "fs"], 8), OpInvalid),
    Insn(X86_INS_CALL, 1, OpInvalid, OpInvalid),
    Insn(X86_INS_CALL, 0, OpInvalid, OpInvalid),
    Insn("X86_INS_CMP", 2, OpReg(X86_REG_RAX, 4), OpImm(U64Of(CmpConst), 4)),
    Insn("X86_INS_CMPSQ", 2, OpMem(MemAt(X86_REG_RSI), 8), OpMem(MemAt(X86_REG_RDI), 8)),
    Insn("X86_INS_CMP", 2, OpReg(X86_REG_RAX, 1), OpImm(U64Of(CmpConst), 1)),
    Insn("X86_INS_SCASB", 2, OpReg(X86_REG_RAX, 1), OpMem(MemAt(X86_REG_RDI), 1)),
    Insn("X86_INS_SUB", 2, OpReg(X86_REG_RAX, 1), OpImm(U64Of(CmpConst), 4)),
    Insn(X86_INS_MOV, 2, OpReg(X86_REG_RAX, 8), OpReg(X86_REG_RBX, 8)),
    Insn("X86_INS_SUB", 2, OpReg(X86_REG_RAX, 8), OpInvalid),
    Insn("X86_INS_CMPSS", 3, OpReg(X86_REG_RAX, 4), OpMem(MemAt(X86_REG_RDI), 4)),
    Insn("X86_INS_CMPSD", 2, OpMem(MemAt(X86_REG_RSI), 16), OpReg(X86_REG_RAX, 16)),
    Insn("X86_INS_CMP", 2, OpUnknown(8), OpReg(X86_REG_RAX, 8)) }

NoInsn == [addr |-> 0, instr |-> Insn("X86_INS_INVALID", 0, OpInvalid, OpInvalid)]

NoCallouts == [call |-> FALSE, cmp |-> FALSE, user_data |-> NoUserData]

Offset(o) == Add64(MemBase, U64Of(o))

\* a pointer within 31 bytes of the top of the address space
PtrTop == Sub64(G_MAXULONG, U64Of(10))

\* the two buffers the target works on, and a pointer to the last mapped byte
PtrSrc == Offset(0)

PtrDst == Offset(16)

PtrShort == Offset(MemLen - 1)

\* the CPU states of the target at code address a when its counter is n
Contexts(a, n) ==
  { [rip |-> CodeAddress(a), rax |-> U64Of(n), rbx |-> PtrSrc, rdi |-> p[1], rsi |-> p[2]] :
      p \in {<<PtrDst, PtrSrc>>, <<PtrShort, PtrSrc>>, <<PtrDst, PtrShort>>,
             <<PtrTop, PtrSrc>>, <<PtrDst, PtrTop>>} }

\* the CPU state with both pointers on the target's buffers
PlainContext(a, n) ==
  [rip |-> CodeAddress(a), rax |-> U64Of(n), rbx |-> PtrSrc, rdi |-> PtrDst, rsi |-> PtrSrc]

\* the bytes of the mapped range when the target's counter is n: the counter
\* at PtrSrc and the constant at PtrDst, each as a little-endian 64-bit word
MemoryAt(n) ==
  [o \in 0..(MemLen - 1) |->
     IF o = 0 THEN n
     ELSE IF o = 16 THEN CmpConst
     ELSE IF o \in 1..7 \/ o \in 17..23 THEN 0
     ELSE 100 + o]

InitContext == [rip |-> Zero64, rax |-> Zero64, rbx |-> Zero64, rdi |-> Zero64, rsi |-> Zero64]

(***************************************************************************)
(* State                                                                   *)
(***************************************************************************)
VARIABLES
  headers,   \* __afl_cmp_map->headers[k]: type, shape, hits
  log,       \* __afl_cmp_map->log[k]: the bytes of the rings of entry k
  insn,      \* the instruction last handed to cmplog_instrument, and its address
  callouts,  \* the callouts the selector attached to it
  context,   \* the GumCpuContext of the target at the instrumented instruction;
             \* InitContext until the target first reaches it
  memory,    \* the bytes of the target's mapped range at that time
  pc,        \* "idle", or "callout" when the target has reached the instruction
  fatal,     \* the FFATAL that ended the process, "" while it runs
  captures,  \* per key, the number of captures recorded so far
  classified \* per key, the run of captures of one kind that ends with the last
             \* capture: its kind, the operand width of its first capture, its
             \* length, and whether a later capture of it had another width

VARIABLES
  r_header,  \* the header of the entry two racing threads share
  r_log,     \* its ring, each slot with its fields v0 and v1
  r_start,   \* the header as it was before the two callouts began
  r_pc,      \* per thread, the next line of cmplog_handle_cmp_sub it executes
  r_hits,    \* per thread, the local variable hits
  r_slot,    \* per thread, the ring slot it wrote, -1 before
  r_build,   \* the instructions the build emitted for lines 167-180
  r_reg      \* per thread, the registers of the access to the entry under way

VARIABLES
  arg,       \* the arguments of the function being evaluated on its own
  ret,       \* what it returned and the memory accesses it made
  Functions, \* BlockCoverage::Functions: function id => vector of counters
  Traces,    \* DataFlowTrace::Traces: input sha1 => trace vector
  answer     \* the last query made of them and its result

mapvars == <<headers, log, insn, callouts, context, memory, pc, fatal, captures, classified>>

racevars == <<r_header, r_log, r_start, r_pc, r_hits, r_slot, r_build, r_reg>>

evalvars == <<arg, ret>>

dftvars == <<Functions, Traces, answer>>

vars == <<mapvars, racevars, evalvars, dftvars>>

NoArg == [kind |-> "none"]

\* no record: the callout returned before line 116
NoRecord == [v0 |-> <<>>, v0_len |-> 0, v1 |-> <<>>, v1_len |-> 0]

NoRet == [kind |-> "none"]

NoAnswer == [query |-> "none"]

EvalIdle == arg = NoArg /\ ret = NoRet

DftIdle == Functions = <<>> /\ Traces = <<>> /\ answer = NoAnswer

map == <<headers, log>>

RECURSIVE SumOver(_, _)
SumOver(f, S) ==
  IF S = {} THEN 0
  ELSE LET x == CHOOSE y \in S : TRUE IN f[x] + SumOver(f, S \ {x})

\* the target's counter at code address a: one more than the captures at its key
Counter(a) == captures[instrument_get_offset_hash(CodeAddress(a))] + 1

Unclassified == [kind |-> CMP_TYPE_NONE, size |-> 0, count |-> 0]

\* the run of captures after one more capture of the given kind and width
Classify(c, kind, size) ==
  IF c.kind # kind
  THEN [kind |-> kind, size |-> size, count |-> 1]
  ELSE [c EXCEPT !.count = @ + 1]

MapInit ==
  /\ headers = [k \in Keys |-> ClearedHeader]
  /\ log = [k \in Keys |-> ClearedLog]
  /\ insn = NoInsn
  /\ callouts = NoCallouts
  /\ context = InitContext
  /\ memory = MemoryAt(0)
  /\ pc = "idle"
  /\ fatal = ""
  /\ captures = [k \in Keys |-> 0]
  /\ classified = [k \in Keys |-> Unclassified]

(***************************************************************************)
(* cmplog_instrument                                                       *)
(***************************************************************************)
Instrument(instr, a) ==
  /\ pc = "idle"
  /\ fatal = ""
  /\ LET call == cmplog_instrument_call(instr)
         cmp  == cmplog_instrument_cmp_sub(instr)
     IN  /\ insn' = [addr |-> a, instr |-> instr]
         /\ fatal' = cmp.fatal
         /\ callouts' = IF cmp.fatal # "" THEN NoCallouts
                        ELSE [call |-> call, cmp |-> cmp.attached, user_data |-> cmp.user_data]
  /\ context' = InitContext
  /\ memory' = MemoryAt(0)
  /\ UNCHANGED <<headers, log, pc, captures, classified>>
  /\ UNCHANGED <<racevars, evalvars, dftvars>>

(***************************************************************************)
(* The target reaches the instrumented instruction                         *)
(***************************************************************************)
Reach(c, m) ==
  /\ pc = "idle"
  /\ fatal = ""
  /\ insn # NoInsn
  /\ SumOver(captures, Keys) < MaxCaptures
  /\ context' = c
  /\ memory' = m
  /\ pc' = "callout"
  /\ UNCHANGED <<headers, log, insn, callouts, fatal, captures, classified>>
  /\ UNCHANGED <<racevars, evalvars, dftvars>>

(***************************************************************************)
(* cmplog_call_callout                                                     *)
(***************************************************************************)
CallCallout ==
  /\ pc = "callout"
  /\ callouts.call
  /\ LET address == ctx_read_reg(context, X86_REG_RIP)
         rdi     == ctx_read_reg(context, X86_REG_RDI)
         rsi     == ctx_read_reg(context, X86_REG_RSI)
         k       == instrument_get_offset_hash(address)
         slot    == cmplog_rtn_slot(cmplog_call_hits(headers[k]))
     IN  IF ~cmplog_call_readable(rdi, rsi)
         THEN UNCHANGED <<headers, log, captures, classified>>
         ELSE /\ headers' = [headers EXCEPT ![k] = cmplog_call_header(@)]
              /\ log' = [log EXCEPT
                           ![k] = cmplog_call_store(@, slot, RtnRecord(memory, rdi, rsi))]
              /\ captures' = [captures EXCEPT ![k] = @ + 1]
              /\ classified' = [classified EXCEPT ![k] = Classify(@, CMP_TYPE_RTN, 0)]
  /\ pc' = "idle"
  /\ UNCHANGED <<insn, callouts, context, memory, fatal>>
  /\ UNCHANGED <<racevars, evalvars, dftvars>>

(***************************************************************************)
(* cmplog_cmp_sub_callout and cmplog_handle_cmp_sub                        *)
(***************************************************************************)
\* a comparison callout that, like the string instruction it watches, moves
\* the pointer in RDI on by the operand width
CmpSubCallout_advance ==
  /\ pc = "callout"
  /\ callouts.cmp
  /\ context' = [context EXCEPT
                   !.rdi = Add64(@, U64Of(callouts.user_data.operand1.size))]
  /\ pc' = "idle"
  /\ UNCHANGED <<headers, log, insn, callouts, memory, fatal, captures, classified>>
  /\ UNCHANGED <<racevars, evalvars, dftvars>>

CmpSubCallout ==
  /\ pc = "callout"
  /\ callouts.cmp
  /\ LET ctx      == callouts.user_data
         operand1 == cmplog_get_operand_value(context, memory, ctx.operand1)
         operand2 == cmplog_get_operand_value(context, memory, ctx.operand2)
         address  == ctx_read_reg(context, X86_REG_RIP)
         k        == instrument_get_offset_hash(address)
         slot     == cmplog_ins_slot(cmplog_cmp_sub_hits(headers[k]))
     IN  IF ~operand1.ok
         THEN /\ fatal' = operand1.fatal
              /\ UNCHANGED <<headers, log, captures, classified>>
         ELSE IF ~operand2.ok
         THEN /\ fatal' = operand2.fatal
              /\ UNCHANGED <<headers, log, captures, classified>>
         ELSE /\ headers' = [headers EXCEPT
                               ![k] = cmplog_cmp_sub_header(@, ctx.operand1.size)]
              /\ log' = [log EXCEPT
                           ![k] = cmplog_cmp_sub_store(@, slot, InsRecord(operand1.val, operand2.val))]
              /\ captures' = [captures EXCEPT ![k] = @ + 1]
              /\ classified' = [classified EXCEPT
                                  ![k] = Classify(@, CMP_TYPE_INS, ctx.operand1.size)]
              /\ fatal' = ""
  /\ pc' = "idle"
  /\ UNCHANGED <<insn, callouts, context, memory>>
  /\ UNCHANGED <<racevars, evalvars, dftvars>>

(***************************************************************************)
(* An instruction the selector attached nothing to runs uninstrumented     *)
(***************************************************************************)
NoCallout ==
  /\ pc = "callout"
  /\ ~callouts.call
  /\ ~callouts.cmp
  /\ pc' = "idle"
  /\ UNCHANGED <<headers, log, insn, callouts, context, memory, fatal, captures, classified>>
  /\ UNCHANGED <<racevars, evalvars, dftvars>>

(***************************************************************************)
(* Two target threads in cmplog_handle_cmp_sub on one map entry.  The      *)
(* callouts of two threads access the entry without synchronisation, a     *)
(* data race, so what a line does to the entry is what the instructions a  *)
(* build emits for it do.  hits is a 24-bit member in bytes 0..2 of the    *)
(* header: a build reads and writes it whole, or, where struct cmp_header  *)
(* is packed, one byte at a time; type and shape share byte 6, which a     *)
(* store to either member loads, changes and stores back.  Every access a  *)
(* build makes to memory is a step of its own                              *)
(***************************************************************************)
\* the largest of the small hits values an entry starts the race with
RaceMaxHits == 5

Threads == {1, 2}

\* the operands and the operand width thread t captures
RaceOperand1(t) == U64Of(10 * t + 1)

RaceOperand2(t) == U64Of(10 * t + 2)

RaceSize(t) == IF t = 1 THEN 4 ELSE 8

RaceEmptySlot == [v0 |-> Zero64, v1 |-> Zero64]

\* the bytes of the member hits, least significant first
HitsBytes == 0..(CMP_HITS_BITS \div 8 - 1)

\* byte j of the counter h
ByteOfHits(h, j) == (h \div 256^j) % 256

\* the bytes J of the counter h, each at its place
RECURSIVE BytesOfHits(_, _)
BytesOfHits(h, J) ==
  IF J = {} THEN 0
  ELSE LET j == CHOOSE x \in J : TRUE
       IN  ByteOfHits(h, j) * 256^j + BytesOfHits(h, J \ {j})

\* the counter h after a store of the bytes J of v
WithBytes(h, J, v) == h - BytesOfHits(h, J) + BytesOfHits(v, J)

\* what the builds of lines 167-180 differ in: whether the store of line 168
\* is emitted (store168: an optimising build knows the counter is 0 after it
\* and goes on to lines 173-174 without the store and without the test),
\* whether line 177 reads the counter again or takes the value line 172 read
\* (read177), whether lines 173 and 174 change byte 6 one after the other or
\* in one store (split173), and whether an access to hits is one instruction
\* or one per byte (bytes)
Builds == [store168 : BOOLEAN, read177 : BOOLEAN, split173 : BOOLEAN, bytes : BOOLEAN]

\* the registers of a thread with no access to the entry under way: todo the
\* bytes of hits the access has yet to load or store, val the bytes loaded,
\* byte6 whether byte 6 is loaded, type and shape what it held
RaceNoAccess == [todo |-> {}, val |-> 0, byte6 |-> FALSE, type |-> CMP_TYPE_NONE, shape |-> 0]

\* the registers at the start of an access to the three bytes of hits
RaceAccess == [RaceNoAccess EXCEPT !.todo = HitsBytes]

\* the bytes the next instruction of thread t's access to hits can take: one
\* of those left, in an order the build chooses, or all of them at once
RaceParts(t) ==
  IF r_build.bytes THEN {{j} : j \in r_reg[t].todo} ELSE {r_reg[t].todo} \ {{}}

RaceIdle ==
  /\ r_header = ClearedHeader
  /\ r_log = [s \in Slots |-> RaceEmptySlot]
  /\ r_start = ClearedHeader
  /\ r_pc = [t \in Threads |-> "done"]
  /\ r_hits = [t \in Threads |-> 0]
  /\ r_slot = [t \in Threads |-> 0 - 1]
  /\ r_build = [store168 |-> TRUE, read177 |-> TRUE, split173 |-> TRUE, bytes |-> TRUE]
  /\ r_reg = [t \in Threads |-> RaceNoAccess]

\* the values of the counter the race starts on: the small ones; the last one
\* from which two captures leave the counter in its lowest byte, and the two
\* from which they carry into the second byte; values above the lowest byte,
\* with and without a carry into the third; and the two from which two
\* captures take the counter past its largest value
RaceStartHits ==
  1..RaceMaxHits
    \cup {2^8 - 3, 2^8 - 2, 2^8 - 1, 2^8, 300, 2^16 - 1, CMP_HITS_MAX - 1, CMP_HITS_MAX}

\* the entries the race starts on: cleared, or classified by earlier captures
RaceStarts ==
  {ClearedHeader}
  \cup {[type |-> CMP_TYPE_INS, shape |-> 1, hits |-> h] : h \in RaceStartHits}
  \cup {[type |-> CMP_TYPE_RTN, shape |-> 30, hits |-> h] : h \in RaceStartHits}

RaceInit ==
  /\ MapInit
  /\ EvalIdle
  /\ DftIdle
  /\ r_header \in RaceStarts
  /\ r_log = [s \in Slots |-> RaceEmptySlot]
  /\ r_start = r_header
  /\ r_pc = [t \in Threads |-> "type"]
  /\ r_hits = [t \in Threads |-> 0]
  /\ r_slot = [t \in Threads |-> 0 - 1]
  /\ r_build \in Builds
  /\ r_reg = [t \in Threads |-> RaceNoAccess]

\* thread t goes on to the line at label with the registers reg
RaceGoto(t, label, reg) ==
  /\ r_pc' = [r_pc EXCEPT ![t] = label]
  /\ r_reg' = [r_reg EXCEPT ![t] = reg]

\* line 167: if (headers[k].type != CMP_TYPE_INS), one load of byte 6.  A type
\* other than INS is followed by the store of line 168 where the build emits
\* it, and by lines 173-174 with hits = 0 from line 170 where it does not
RaceReadType(t) ==
  /\ r_pc[t] = "type"
  /\ IF r_header.type # CMP_TYPE_INS
     THEN IF r_build.store168
          THEN RaceGoto(t, "reset", RaceAccess)
          ELSE RaceGoto(t, "settype", RaceNoAccess)
     ELSE RaceGoto(t, "test", RaceAccess)
  /\ UNCHANGED <<mapvars, evalvars, dftvars, r_header, r_log, r_start, r_hits, r_slot, r_build>>

\* line 168: headers[k].hits = 0, one store per step
RaceResetHits(t) ==
  /\ r_pc[t] = "reset"
  /\ \E J \in RaceParts(t) :
       /\ r_header' = [r_header EXCEPT !.hits = WithBytes(@, J, 0)]
       /\ IF r_reg[t].todo = J
          THEN RaceGoto(t, "test", RaceAccess)
          ELSE RaceGoto(t, "reset", [r_reg[t] EXCEPT !.todo = @ \ J])
  /\ UNCHANGED <<mapvars, evalvars, dftvars, r_log, r_start, r_hits, r_slot, r_build>>

\* line 172: if (headers[k].hits == 0), with hits = 0 from line 170: one load
\* of the member per step, the test made on the bytes loaded.  A
\* counter other than 0 is read again by line 177 where the build emits that
\* read, and is the value of hits where it does not
RaceTestHits(t) ==
  /\ r_pc[t] = "test"
  /\ \E J \in RaceParts(t) :
       LET val == r_reg[t].val + BytesOfHits(r_header.hits, J)
       IN  IF r_reg[t].todo # J
           THEN /\ RaceGoto(t, "test", [r_reg[t] EXCEPT !.todo = @ \ J, !.val = val])
                /\ UNCHANGED r_hits
           ELSE IF val = 0
                THEN /\ RaceGoto(t, "settype", RaceNoAccess)
                     /\ r_hits' = [r_hits EXCEPT ![t] = 0]
                ELSE IF r_build.read177
                     THEN /\ RaceGoto(t, "read", RaceAccess)
                          /\ r_hits' = [r_hits EXCEPT ![t] = 0]
                     ELSE /\ RaceGoto(t, "store", RaceAccess)
                          /\ r_hits' = [r_hits EXCEPT ![t] = val]
  /\ UNCHANGED <<mapvars, evalvars, dftvars, r_header, r_log, r_start, r_slot, r_build>>

\* line 173: headers[k].type = CMP_TYPE_INS.  Byte 6 is loaded, and stored
\* back with the type changed and the shape that was loaded; a build that
\* changes byte 6 once stores the type and the shape of line 174 together
RaceSetType(t) ==
  /\ r_pc[t] = "settype"
  /\ IF ~r_build.split173
     THEN /\ r_header' = [r_header EXCEPT !.type = CMP_TYPE_INS, !.shape = RaceSize(t) - 1]
          /\ RaceGoto(t, "store", RaceAccess)
     ELSE IF ~r_reg[t].byte6
          THEN /\ RaceGoto(t, "settype", [RaceNoAccess EXCEPT !.byte6 = TRUE,
                                                             !.type = r_header.type,
                                                             !.shape = r_header.shape])
               /\ UNCHANGED r_header
          ELSE /\ r_header' = [r_header EXCEPT !.type = CMP_TYPE_INS, !.shape = r_reg[t].shape]
               /\ RaceGoto(t, "setshape", RaceNoAccess)
  /\ UNCHANGED <<mapvars, evalvars, dftvars, r_log, r_start, r_hits, r_slot, r_build>>

\* line 174: headers[k].shape = (size - 1): byte 6 is loaded, and stored back
\* with the shape changed and the type that was loaded
RaceSetShape(t) ==
  /\ r_pc[t] = "setshape"
  /\ IF ~r_reg[t].byte6
     THEN /\ RaceGoto(t, "setshape", [RaceNoAccess EXCEPT !.byte6 = TRUE,
                                                          !.type = r_header.type,
                                                          !.shape = r_header.shape])
          /\ UNCHANGED r_header
     ELSE /\ r_header' = [r_header EXCEPT !.type = r_reg[t].type, !.shape = RaceSize(t) - 1]
          /\ RaceGoto(t, "store", RaceAccess)
  /\ UNCHANGED <<mapvars, evalvars, dftvars, r_log, r_start, r_hits, r_slot, r_build>>

\* line 177: hits = headers[k].hits, one load of the member per step
RaceReadHits(t) ==
  /\ r_pc[t] = "read"
  /\ \E J \in RaceParts(t) :
       LET val == r_reg[t].val + BytesOfHits(r_header.hits, J)
       IN  IF r_reg[t].todo # J
           THEN /\ RaceGoto(t, "read", [r_reg[t] EXCEPT !.todo = @ \ J, !.val = val])
                /\ UNCHANGED r_hits
           ELSE /\ RaceGoto(t, "store", RaceAccess)
                /\ r_hits' = [r_hits EXCEPT ![t] = val]
  /\ UNCHANGED <<mapvars, evalvars, dftvars, r_header, r_log, r_start, r_slot, r_build>>

\* line 180 with the increment dropped: headers[k].hits = hits
RaceStoreHits_same(t) ==
  /\ r_pc[t] = "store"
  /\ \E J \in RaceParts(t) :
       /\ r_header' = [r_header EXCEPT !.hits = WithBytes(@, J, r_hits[t])]
       /\ IF r_reg[t].todo = J
          THEN RaceGoto(t, "v0", RaceNoAccess)
          ELSE RaceGoto(t, "store", [r_reg[t] EXCEPT !.todo = @ \ J])
  /\ UNCHANGED <<mapvars, evalvars, dftvars, r_log, r_start, r_hits, r_slot, r_build>>

\* line 180: headers[k].hits = hits + 1, cut to the width of the member, one
\* store per step
RaceStoreHits(t) ==
  /\ r_pc[t] = "store"
  /\ \E J \in RaceParts(t) :
       /\ r_header' = [r_header EXCEPT
                         !.hits = WithBytes(@, J, (r_hits[t] + 1) % 2^CMP_HITS_BITS)]
       /\ IF r_reg[t].todo = J
          THEN RaceGoto(t, "v0", RaceNoAccess)
          ELSE RaceGoto(t, "store", [r_reg[t] EXCEPT !.todo = @ \ J])
  /\ UNCHANGED <<mapvars, evalvars, dftvars, r_log, r_start, r_hits, r_slot, r_build>>

\* lines 181-182: hits &= CMP_MAP_H - 1; log[k][hits].v0 = operand1
RaceStoreV0(t) ==
  /\ r_pc[t] = "v0"
  /\ r_log' = [r_log EXCEPT ![cmplog_ins_slot(r_hits[t])].v0 = RaceOperand1(t)]
  /\ r_slot' = [r_slot EXCEPT ![t] = cmplog_ins_slot(r_hits[t])]
  /\ RaceGoto(t, "v1", RaceNoAccess)
  /\ UNCHANGED <<mapvars, evalvars, dftvars, r_header, r_start, r_hits, r_build>>

\* line 183: log[k][hits].v1 = operand2
RaceStoreV1(t) ==
  /\ r_pc[t] = "v1"
  /\ r_log' = [r_log EXCEPT ![cmplog_ins_slot(r_hits[t])].v1 = RaceOperand2(t)]
  /\ RaceGoto(t, "done", RaceNoAccess)
  /\ UNCHANGED <<mapvars, evalvars, dftvars, r_header, r_start, r_hits, r_slot, r_build>>

RaceNext ==
  \E t \in Threads :
    \/ RaceReadType(t)
    \/ RaceResetHits(t)
    \/ RaceTestHits(t)
    \/ RaceSetType(t)
    \/ RaceSetShape(t)
    \/ RaceReadHits(t)
    \/ RaceStoreHits(t)
    \/ RaceStoreV0(t)
    \/ RaceStoreV1(t)

SpecRace == RaceInit /\ [][RaceNext]_vars

Init == MapInit /\ RaceIdle /\ EvalIdle /\ DftIdle

Next ==
  \/ \E instr \in Program, a \in Addrs : Instrument(instr, a)
  \/ \E c \in (IF callouts.call \/ callouts.cmp
                THEN Contexts(insn.addr, Counter(insn.addr))
                ELSE {PlainContext(insn.addr, Counter(insn.addr))}) :
       Reach(c, MemoryAt(Counter(insn.addr)))
  \/ CallCallout
  \/ CmpSubCallout
  \/ NoCallout

Spec == Init /\ [][Next]_vars

(***************************************************************************)
(* What the target's captures look like: with the counter at n, a          *)
(* comparison capture sees the counter and the constant, and a call-site   *)
(* capture sees the 31 bytes at PtrDst and the 31 bytes at PtrSrc          *)
(***************************************************************************)
InsCaptureOf(n) ==
  [v0 |-> <<n, 0, 0, 0>>, v1 |-> <<CmpConst, 0, 0, 0>>]

RtnCaptureOf(n) ==
  [v0_len |-> 31, v1_len |-> 31,
   v0 |-> [i \in 1..31 |-> MemoryAt(n)[15 + i]],
   v1 |-> [i \in 1..31 |-> MemoryAt(n)[i - 1]]]

\* slot s of the INS ring of entry k holds the record of a comparison capture
HoldsInsCapture(k, s) ==
  \E n \in 1..MaxCaptures : cmp_operands_at(log[k], s) = InsCaptureOf(n)

\* slot s of the RTN ring of entry k holds the record of a call-site capture
HoldsRtnCapture(k, s) ==
  \E n \in 1..MaxCaptures : cmpfn_operands_at(log[k], s) = RtnCaptureOf(n)

\* every capture at key k since the map was cleared was of this kind
OnlyKind(k, kind) == classified[k].kind = kind /\ classified[k].count = captures[k]

(***************************************************************************)
(* C1: ring wraparound. After N captures of one kind at a cleared key, the *)
(* i-th capture (0-based) is at slot i mod capacity for each of the last   *)
(* `capacity` captures, so the ring holds exactly the last `capacity`      *)
(* captures and each new one overwrites the oldest, for the INS ring       *)
(* (CMP_MAP_H) and for the RTN ring (CMP_MAP_RTN_H).                       *)
(***************************************************************************)
C1_RingWraparound ==
  \A k \in Keys :
    LET N == captures[k]
    IN  /\ OnlyKind(k, CMP_TYPE_INS) =>
             \A i \in 0..(N - 1) :
               i >= N - CMP_MAP_H =>
                 cmp_operands_at(log[k], i % CMP_MAP_H) = InsCaptureOf(i + 1)
        /\ OnlyKind(k, CMP_TYPE_RTN) =>
             \A i \in 0..(N - 1) :
               i >= N - CMP_MAP_RTN_H =>
                 cmpfn_operands_at(log[k], i % CMP_MAP_RTN_H) = RtnCaptureOf(i + 1)

\* a key whose INS ring has wrapped: one capture more than its capacity
C1_Witness ==
  \E k \in Keys : OnlyKind(k, CMP_TYPE_INS) /\ captures[k] = CMP_MAP_H + 1

(***************************************************************************)
(* The steps the claims speak of, stated on the state a callout starts in  *)
(***************************************************************************)
\* the callouts of the instruction at key k are about to run
AtKey(k) == pc = "callout" /\ instrument_get_offset_hash(context.rip) = k

\* p references 31 readable bytes below the top of the address space
PointerOk(p) == ~Lt64(Sub64(G_MAXULONG, p), <<31, 0, 0, 0>>) /\ cmplog_is_readable(p, 31)

\* evaluating the operand fails: a memory operand at an unreadable address
OperandUnreadable(c) ==
  c.type = X86_OP_MEM /\ ~cmplog_is_readable(cmplog_mem_address(context, c.mem), c.size)

\* evaluating the operand yields a value
OperandEvaluates(c) ==
  \/ c.type \in {X86_OP_REG, X86_OP_IMM}
  \/ /\ c.type = X86_OP_MEM
     /\ c.size \in {1, 2, 4, 8}
     /\ cmplog_is_readable(cmplog_mem_address(context, c.mem), c.size)

\* the step about to be taken is a successful call-site capture at key k
CallCaptures(k) ==
  AtKey(k) /\ callouts.call /\ PointerOk(context.rdi) /\ PointerOk(context.rsi)

\* the step about to be taken is a successful comparison capture at key k
CmpCaptures(k) ==
  /\ AtKey(k)
  /\ callouts.cmp
  /\ OperandEvaluates(callouts.user_data.operand1)
  /\ OperandEvaluates(callouts.user_data.operand2)

(***************************************************************************)
(* C3 as stated: once the type of an entry is INS or RTN it keeps that     *)
(* value in every later state.                                             *)
(***************************************************************************)
C3_TypeNeverChanges ==
  [][\A k \in Keys :
       headers[k].type \in {CMP_TYPE_INS, CMP_TYPE_RTN} =>
         headers'[k].type = headers[k].type]_vars

(***************************************************************************)
(* C3 amended: a successful call-site capture at k leaves type[k] = RTN, a *)
(* successful comparison capture at k leaves type[k] = INS, and no other   *)
(* step changes the type of any entry; so a set type changes only when a   *)
(* capture of the other kind arrives at the same key.                      *)
(***************************************************************************)
C3_TypeFollowsLastCapture ==
  [][\A k \in Keys :
       /\ CallCaptures(k) => headers'[k].type = CMP_TYPE_RTN
       /\ CmpCaptures(k) => headers'[k].type = CMP_TYPE_INS
       /\ ~CallCaptures(k) /\ ~CmpCaptures(k) => headers'[k].type = headers[k].type]_vars

\* an entry classified INS and later re-classified RTN by a call-site capture,
\* with the record of a comparison capture left beside the call-site record
C3_Witness ==
  \E k \in Keys :
    /\ headers[k].type = CMP_TYPE_RTN
    /\ classified[k].kind = CMP_TYPE_RTN
    /\ captures[k] > classified[k].count
    /\ HoldsRtnCapture(k, 0)
    /\ \E s \in Slots : HoldsInsCapture(k, s)

(***************************************************************************)
(* C5: a single-byte comparison instruction never produces a map update:   *)
(* the selector attaches no callout to it, and executing it leaves every   *)
(* header and ring slot as it was.                                         *)
(***************************************************************************)
SingleByteCmp(instr) ==
  /\ instr.id \in CmpSubFamily
  /\ instr.op_count = 2
  /\ instr.operands[1].size = 1

C5_SingleByteNeverCaptured ==
  [][/\ SingleByteCmp(insn'.instr) => ~callouts'.cmp /\ ~callouts'.call
     /\ pc = "callout" /\ SingleByteCmp(insn.instr) =>
          headers' = headers /\ log' = log]_vars

\* a single-byte scan instruction reached by the target at a key that already
\* holds captures
C5_Witness ==
  /\ pc = "callout"
  /\ SingleByteCmp(insn.instr)
  /\ insn.instr.id = "X86_INS_SCASB"
  /\ headers[instrument_get_offset_hash(context.rip)].hits > 0

(***************************************************************************)
(* C6: a call-site capture with RDI or RSI not referencing 31 readable     *)
(* bytes (within 31 bytes of the top of the address space, or unreadable)  *)
(* leaves every header and every ring slot unchanged.                      *)
(***************************************************************************)
C6_CallCaptureNeedsReadablePointers ==
  [][(/\ pc = "callout"
      /\ callouts.call
      /\ ~PointerOk(context.rdi) \/ ~PointerOk(context.rsi)) =>
        headers' = headers /\ log' = log]_vars

\* the call callout about to run with RDI readable and RSI on the last mapped
\* byte, at a key that already holds captures
C6_Witness ==
  /\ pc = "callout"
  /\ callouts.call
  /\ PointerOk(context.rdi)
  /\ ~PointerOk(context.rsi)
  /\ cmplog_is_readable(context.rsi, 1)
  /\ headers[instrument_get_offset_hash(context.rip)].hits > 0

(***************************************************************************)
(* C7: when evaluating the first or the second operand fails (unreadable   *)
(* memory operand) the comparison callout leaves the whole map unchanged,  *)
(* also when the first operand evaluated and only the second failed.       *)
(***************************************************************************)
C7_EvaluationFailureSkipsCapture ==
  [][(/\ pc = "callout"
      /\ callouts.cmp
      /\ \/ OperandUnreadable(callouts.user_data.operand1)
         \/ OperandUnreadable(callouts.user_data.operand2)) =>
        headers' = headers /\ log' = log /\ fatal' = ""]_vars

\* the comparison callout about to run with a first operand that evaluates
\* and a second that is unreadable, at a key that already holds captures
C7_Witness ==
  /\ pc = "callout"
  /\ callouts.cmp
  /\ OperandEvaluates(callouts.user_data.operand1)
  /\ OperandUnreadable(callouts.user_data.operand2)
  /\ headers[instrument_get_offset_hash(context.rip)].hits > 0

(***************************************************************************)
(* C8 as stated: no instruction handed to cmplog_instrument and no CPU     *)
(* state at callout time reaches FFATAL: an unsupported operand type or    *)
(* size makes the selector skip the instruction.                           *)
(***************************************************************************)
C8_NeverFatal == fatal = ""

(***************************************************************************)
(* C10: after every successful call-site capture at key k the header at k  *)
(* has type RTN and shape 30, whatever it held before, and every header of *)
(* type RTN has shape 30.                                                  *)
(***************************************************************************)
C10_CallSiteClassification ==
  [][\A k \in Keys :
       /\ CallCaptures(k) =>
            headers'[k].type = CMP_TYPE_RTN /\ headers'[k].shape = 30
       /\ headers'[k].type = CMP_TYPE_RTN => headers'[k].shape = 30]_vars

\* an entry of type RTN that was INS with at least three hits before: the
\* third comparison record is left above the call-site record
C10_Witness ==
  \E k \in Keys :
    /\ headers[k].type = CMP_TYPE_RTN
    /\ headers[k].shape = 30
    /\ \E s \in Slots : s >= 2 /\ HoldsInsCapture(k, s)

(***************************************************************************)
(* C9 as stated: when the callouts of two threads have run interleaved on  *)
(* one entry, each read and each write of cmplog_handle_cmp_sub a separate *)
(* atomic step, at least one of the two captured operand pairs is intact   *)
(* in the ring (v0 and v1 of the slot from the same capture) at a slot     *)
(* index below hits, and hits has grown by at least one.                   *)
(***************************************************************************)
RaceDone == \A t \in Threads : r_pc[t] = "done"

\* the premise of the claim: the build makes every read and every write the
\* function has, and each access to hits is one instruction
RaceAtomicSteps == r_build.store168 /\ r_build.read177 /\ ~r_build.bytes

C9_OneCaptureIntact ==
  (RaceAtomicSteps /\ RaceDone) =>
    /\ \E t \in Threads, s \in Slots :
         /\ s < r_header.hits
         /\ r_log[s] = [v0 |-> RaceOperand1(t), v1 |-> RaceOperand2(t)]
    /\ r_header.hits >= r_start.hits + 1

(***************************************************************************)
(* C9 amended: under the same premise, after both callouts have finished   *)
(* each thread has written one slot of the INS ring, whose v0 is the first *)
(* operand of one of the two captures and whose v1 is the second operand   *)
(* of one of the two captures; the two come from the same capture when the *)
(* threads wrote different slots, and may come from different captures     *)
(* when both wrote the same slot.  One of the written slots is the one at  *)
(* index ((hits - 1) mod 2^CMP_HITS_BITS) mod CMP_MAP_H.  hits is one or   *)
(* two above the counter the entry started with, modulo 2^CMP_HITS_BITS,   *)
(* when the entry started with type INS, and is 1 or 2 when it started     *)
(* with another type.                                                      *)
(***************************************************************************)
C9_OneSlotWritten ==
  (RaceAtomicSteps /\ RaceDone) =>
    /\ \A t \in Threads :
         /\ r_slot[t] \in Slots
         /\ \E a \in Threads : r_log[r_slot[t]].v0 = RaceOperand1(a)
         /\ \E b \in Threads : r_log[r_slot[t]].v1 = RaceOperand2(b)
         /\ (\A u \in Threads \ {t} : r_slot[u] # r_slot[t]) =>
              r_log[r_slot[t]] = [v0 |-> RaceOperand1(t), v1 |-> RaceOperand2(t)]
    /\ \E t \in Threads :
         r_slot[t] = ((r_header.hits + 2^CMP_HITS_BITS - 1) % 2^CMP_HITS_BITS) % CMP_MAP_H
    /\ LET before == IF r_start.type = CMP_TYPE_INS THEN r_start.hits ELSE 0
       IN  r_header.hits \in {(before + 1) % 2^CMP_HITS_BITS, (before + 2) % 2^CMP_HITS_BITS}

\* under the premise, both threads finished on the same slot, which holds v0
\* of one capture and v1 of the other
C9_Witness ==
  /\ RaceAtomicSteps
  /\ RaceDone
  /\ r_slot[1] = r_slot[2]
  /\ r_log[r_slot[1]] = [v0 |-> RaceOperand1(2), v1 |-> RaceOperand2(1)]

(***************************************************************************)
(* The evaluator and the call-site callout on their own: one call on       *)
(* given arguments, with the accesses to target memory it makes in order   *)
(***************************************************************************)
\* the gsize a signed value converts to (int64_t disp in line 41), for
\* |n| < 2^16: two's complement
Wrap64(n) ==
  IF n >= 0 THEN U64Of(n)
  ELSE <<LimbBase + n, LimbBase - 1, LimbBase - 1, LimbBase - 1>>

Probe(address, size) ==
  [op |-> "probe", address |-> address, size |-> size,
   ok |-> cmplog_is_readable(address, size)]

Read(address, size) == [op |-> "read", address |-> address, size |-> size, ok |-> TRUE]

\* the accesses of cmplog_read_mem, lines 43-57
cmplog_read_mem_accesses(cpu, size, mem) ==
  LET address == cmplog_mem_address(cpu, mem)
  IN  <<Probe(address, size)>> \o
      (IF cmplog_read_mem(cpu, [o \in 0..(MemLen - 1) |-> 0], size, mem).ok
       THEN <<Read(address, size)>> ELSE <<>>)

\* the accesses of cmplog_call_callout, lines 90-121: the probe of rsi is
\* made only when that of rdi succeeded, the copies when both did
cmplog_call_accesses(cpu) ==
  LET rdi == ctx_read_reg(cpu, X86_REG_RDI)
      rsi == ctx_read_reg(cpu, X86_REG_RSI)
      top == \/ Lt64(Sub64(G_MAXULONG, rdi), U64Of(RTN_LEN))
             \/ Lt64(Sub64(G_MAXULONG, rsi), U64Of(RTN_LEN))
  IN  (IF top THEN <<>>
       ELSE <<Probe(rdi, RTN_LEN)>> \o
            (IF cmplog_is_readable(rdi, RTN_LEN) THEN <<Probe(rsi, RTN_LEN)>> ELSE <<>>))
      \o (IF cmplog_call_readable(rdi, rsi)
          THEN <<Read(rdi, RTN_LEN), Read(rsi, RTN_LEN)>> ELSE <<>>)

\* the bytes of the mapped range during these calls, none of them zero
EvalMemory == [o \in 0..(MemLen - 1) |-> 1 + ((o * 7 + 3) % 255)]

\* values of the base register, of the index register and of the displacement
EvalBases == {0 - 8, 4096, 4096 + MemLen - 8, 4096 + MemLen}

EvalIndexes == {0 - 1, 1, 5}

EvalDisps == {0 - 4096, 0 - 4, 0, 4, 4096 + 8}

EvalScales == {1, 2, 4, 8}

EvalSizes == {1, 2, 4, 8}

\* cmplog_read_mem on a memory operand with or without base and index; the
\* registers hold their values whether or not the operand names them
ReadMemArgs ==
  { [kind |-> "read_mem", has_base |-> hb, base |-> b, has_index |-> hi, index |-> i,
     scale |-> sc, disp |-> d, size |-> sz,
     context |-> [InitContext EXCEPT !.rax = Wrap64(b), !.rbx = Wrap64(i)],
     mem |-> [NoMem EXCEPT !.base = IF hb THEN X86_REG_RAX ELSE X86_REG_INVALID,
                           !.index = IF hi THEN X86_REG_RBX ELSE X86_REG_INVALID,
                           !.scale = sc, !.disp = Wrap64(d)]] :
      hb \in BOOLEAN, b \in EvalBases, hi \in BOOLEAN, i \in EvalIndexes,
      sc \in EvalScales, d \in EvalDisps, sz \in EvalSizes }

\* pointers around the ends of the mapped range and of the address space
EvalPointers ==
  { PtrSrc, PtrDst, PtrShort, PtrTop, Offset(MemLen - RTN_LEN), Offset(MemLen - RTN_LEN + 1),
    Sub64(G_MAXULONG, U64Of(RTN_LEN)), Sub64(MemBase, U64Of(1)) }

\* cmplog_call_callout on a pair of pointer arguments
CallArgs ==
  { [kind |-> "call", context |-> [InitContext EXCEPT !.rdi = p, !.rsi = q]] :
      p \in EvalPointers, q \in EvalPointers }

EvalInit ==
  /\ MapInit
  /\ RaceIdle
  /\ DftIdle
  /\ arg \in ReadMemArgs \cup CallArgs
  /\ ret = NoRet

EvalReadMem ==
  /\ arg.kind = "read_mem"
  /\ ret = NoRet
  /\ ret' = [kind |-> "read_mem",
             result |-> cmplog_read_mem(arg.context, EvalMemory, arg.size, arg.mem),
             accesses |-> cmplog_read_mem_accesses(arg.context, arg.size, arg.mem)]
  /\ UNCHANGED <<mapvars, racevars, dftvars, arg>>

EvalCallCallout ==
  /\ arg.kind = "call"
  /\ ret = NoRet
  /\ LET rdi == ctx_read_reg(arg.context, X86_REG_RDI)
         rsi == ctx_read_reg(arg.context, X86_REG_RSI)
     IN  ret' = [kind |-> "call",
                 stored |-> cmplog_call_readable(rdi, rsi),
                 record |-> IF cmplog_call_readable(rdi, rsi)
                            THEN RtnRecord(EvalMemory, rdi, rsi) ELSE NoRecord,
                 accesses |-> cmplog_call_accesses(arg.context)]
  /\ UNCHANGED <<mapvars, racevars, dftvars, arg>>

EvalNext == EvalReadMem \/ EvalCallCallout

SpecEval == EvalInit /\ [][EvalNext]_vars

(***************************************************************************)
(* C11: memory operand evaluation computes address = base + index * scale  *)
(* + displacement in 64-bit wrapping arithmetic, base and index taken as 0 *)
(* when their register is absent; it fails without reading when the range *)
(* is not readable, and otherwise succeeds with the size-byte (1, 2, 4, 8) *)
(* little-endian value at that address, zero-extended.                     *)
(***************************************************************************)
\* base + index * scale + disp over the integers
EvalSum ==
  (IF arg.has_base THEN arg.base ELSE 0)
  + (IF arg.has_index THEN arg.index ELSE 0) * arg.scale + arg.disp

\* offset o of the mapped range holds byte j of the value, or 0 past its size
EvalByte(o, j) == IF j < arg.size THEN EvalMemory[o + j] ELSE 0

C11_ReadMem ==
  (ret # NoRet /\ ret.kind = "read_mem") =>
    LET o == EvalSum - 4096
    IN  /\ ret.accesses[1].address = Wrap64(EvalSum)
        /\ IF o >= 0 /\ o + arg.size <= MemLen
           THEN /\ ret.result.ok
                /\ ret.result.fatal = ""
                /\ ret.result.val =
                     [w \in 1..4 |->
                        EvalByte(o, 2 * w - 2) + 256 * EvalByte(o, 2 * w - 1)]
           ELSE /\ ~ret.result.ok
                /\ ret.result.fatal = ""
                /\ \A a \in 1..Len(ret.accesses) : ret.accesses[a].op # "read"

\* an address that wraps around 2^64 into the mapped range: base 2^64 - 8,
\* no index, displacement 4096 + 8, eight bytes read
C11_Witness ==
  /\ ret # NoRet
  /\ ret.kind = "read_mem"
  /\ arg.has_base
  /\ arg.base = 0 - 8
  /\ ~arg.has_index
  /\ arg.disp = 4096 + 8
  /\ arg.size = 8
  /\ ret.result.ok
  /\ ret.result.val[4] # 0

(***************************************************************************)
(* C12: every read of target memory by a callout is preceded, in the same  *)
(* callout, by a successful readability check of the same start address    *)
(* and at least as many bytes; the 31-byte copies of cmplog_call_callout   *)
(* are made only from pointers p with p + 31 not overflowing; no byte read *)
(* is an unmapped one.                                                     *)
(***************************************************************************)
ProbedBefore(accesses, i) ==
  \E j \in 1..(i - 1) :
    /\ accesses[j].op = "probe"
    /\ accesses[j].ok
    /\ accesses[j].address = accesses[i].address
    /\ accesses[j].size >= accesses[i].size

C12_ReadsAreProbed ==
  ret # NoRet =>
    /\ \A i \in 1..Len(ret.accesses) :
         ret.accesses[i].op = "read" =>
           /\ ProbedBefore(ret.accesses, i)
           /\ ret.kind = "call" =>
                Le64(ret.accesses[i].address, Sub64(G_MAXULONG, U64Of(RTN_LEN)))
    /\ (ret.kind = "read_mem" /\ ret.result.ok) =>
         /\ \A w \in 1..4 : ret.result.val[w] # Fault
         /\ ret.accesses[Len(ret.accesses)] = Read(ret.accesses[1].address, arg.size)
    /\ (ret.kind = "call" /\ ret.stored) =>
         /\ \A b \in 1..RTN_LEN : ret.record.v0[b] # Fault /\ ret.record.v1[b] # Fault
         /\ Len(ret.accesses) = 4
         /\ ret.accesses[3] = Read(ctx_read_reg(arg.context, X86_REG_RDI), RTN_LEN)
         /\ ret.accesses[4] = Read(ctx_read_reg(arg.context, X86_REG_RSI), RTN_LEN)

\* a call-site callout that copied 31 bytes from the last 31 mapped bytes
C12_Witness ==
  /\ ret # NoRet
  /\ ret.kind = "call"
  /\ ret.stored
  /\ ctx_read_reg(arg.context, X86_REG_RSI) = Offset(MemLen - RTN_LEN)
  /\ ret.accesses[4].op = "read"

(***************************************************************************)
(* C13: the callouts are read-only with respect to the target: a step of   *)
(* cmplog_call_callout or cmplog_cmp_sub_callout leaves every register of  *)
(* the CPU context and every byte of target memory as they were, whether   *)
(* or not it records a capture; besides the comparison map it changes      *)
(* neither the instruction nor the callouts attached to it.                *)
(***************************************************************************)
C13_CalloutsReadOnly ==
  [][pc = "callout" =>
       /\ context' = context
       /\ memory' = memory
       /\ insn' = insn
       /\ callouts' = callouts]_vars

\* a comparison capture of two memory operands has just been recorded, with
\* the registers and the memory the target presented still in place
C13_Witness ==
  /\ pc = "idle"
  /\ insn.instr.id = "X86_INS_CMPSQ"
  /\ context.rdi = PtrDst
  /\ context.rsi = PtrSrc
  /\ memory[0] > 0
  /\ \E k \in Keys, s \in Slots : cmp_operands_at(log[k], s) = InsCaptureOf(memory[0])

(***************************************************************************)
(* BlockCoverage and DataFlowTrace (FuzzerDataFlowTrace.h).  The tables    *)
(* are filled by AppendCoverage, ReadCoverage and Init, whose bodies are   *)
(* not among the sources; the queries start from any table those may have *)
(* built: a vector of counters per function that has a record, a byte      *)
(* vector per input.                                                       *)
(***************************************************************************)
\* the largest value of a block counter
MaxCounter == 2

FunctionIds == {0, 1, 2}

BasicBlockIds == {0, 1, 2}

\* CoverageVector: the counters of blocks 0, 1, ... are Counters[1], [2], ...
CoverageVectors ==
  UNION { [1..n -> 0..MaxCounter] : n \in {1, 2} } \cup {<<0, 0, MaxCounter>>, <<2, 0, 1>>}

InputSha1s == {"sha1_a", "sha1_b", "sha1_c"}

\* the coverage records AppendCoverage is given: the block counts one
\* execution found in function 0 (as one or as two blocks) or in function 1
\* (function 2 is never covered), or text that does not parse
CoverageRecords ==
  { [malformed |-> FALSE, function |-> 0, counts |-> c] :
      c \in UNION { [1..n -> 0..1] : n \in {1, 2} } }
    \cup { [malformed |-> FALSE, function |-> 1, counts |-> c] : c \in [1..1 -> 0..1] }
    \cup { [malformed |-> TRUE, function |-> 0, counts |-> <<>>] }

\* the trace directory: one file per observed input, named by its
\* fingerprint, with the coverage record of that execution and the data-flow
\* row of each function
TraceDir ==
  [h \in {"sha1_a", "sha1_b"} |->
     IF h = "sha1_a"
     THEN [coverage |-> [malformed |-> FALSE, function |-> 0, counts |-> <<1, 0>>],
           rows |-> [f \in {0, 1} |-> IF f = 0 THEN <<1, 0>> ELSE <<1>>]]
     ELSE [coverage |-> [malformed |-> FALSE, function |-> 1, counts |-> <<1>>],
           rows |-> [f \in {0, 1} |-> IF f = 0 THEN <<0>> ELSE <<0, 1>>]]]

\* the corpus file lists Init is given
Corpora == { {}, {"sha1_a"}, {"sha1_a", "sha1_b"}, {"sha1_b", "sha1_c"} }

\* the focus function Init is asked for: none named, a listed function, or a
\* name that is not in the function list
FocusRequests == {[named |-> FALSE, listed |-> FALSE, index |-> 0],
                  [named |-> TRUE, listed |-> TRUE, index |-> 0],
                  [named |-> TRUE, listed |-> TRUE, index |-> 1],
                  [named |-> TRUE, listed |-> FALSE, index |-> 0]}

\* Functions.size()
NumCoveredFunctions(F) == Cardinality(DOMAIN F)

\* a lookup with Functions[FunctionId], which creates the record it does not
\* find, and that clamps the block id to the last block of the function
GetCounter_subscript(F, FunctionId, BasicBlockId) ==
  LET inserted == [f \in DOMAIN F \cup {FunctionId} |-> IF f \in DOMAIN F THEN F[f] ELSE <<>>]
      Counters == inserted[FunctionId]
  IN  [value |-> IF BasicBlockId < Len(Counters) THEN Counters[BasicBlockId + 1]
                 ELSE IF Len(Counters) > 0 THEN Counters[Len(Counters)] ELSE 0,
       functions |-> inserted]

\* BlockCoverage::GetCounter: the value returned, and Functions after the call
GetCounter(F, FunctionId, BasicBlockId) ==
  IF FunctionId \notin DOMAIN F THEN [value |-> 0, functions |-> F]
  ELSE LET Counters == F[FunctionId]
       IN  [value |-> IF BasicBlockId < Len(Counters) THEN Counters[BasicBlockId + 1] ELSE 0,
            functions |-> F]

\* BlockCoverage::GetNumberOfBlocks: the value returned, and Functions after
GetNumberOfBlocks(F, FunctionId) ==
  IF FunctionId \notin DOMAIN F THEN [value |-> 0, functions |-> F]
  ELSE [value |-> Len(F[FunctionId]), functions |-> F]

\* the loop "for (auto Cnt : Counters) if (Cnt) Res++" over the first n counters
RECURSIVE NumberOfCoveredBlocks(_, _)
NumberOfCoveredBlocks(Counters, n) ==
  IF n = 0 THEN 0
  ELSE NumberOfCoveredBlocks(Counters, n - 1) + (IF Counters[n] # 0 THEN 1 ELSE 0)

\* BlockCoverage::GetNumberOfCoveredBlocks: the value returned, and Functions
\* after
GetNumberOfCoveredBlocks(F, FunctionId) ==
  IF FunctionId \notin DOMAIN F THEN [value |-> 0, functions |-> F]
  ELSE [value |-> NumberOfCoveredBlocks(F[FunctionId], Len(F[FunctionId])), functions |-> F]

Min(a, b) == IF b < a THEN b ELSE a

\* Res after the first n counters: Res = Counters[0], then
\* "if (Cnt) Res = Min(Res, Cnt)" for each
RECURSIVE SmallestNonZeroLoop(_, _)
SmallestNonZeroLoop(Counters, n) ==
  IF n = 0 THEN Counters[1]
  ELSE LET Res == SmallestNonZeroLoop(Counters, n - 1)
       IN  IF Counters[n] # 0 THEN Min(Res, Counters[n]) ELSE Res

\* SmallestNonZeroCounter: the value, and whether assert(Res) held; a build
\* with NDEBUG returns the value whether or not it held, one without aborts
SmallestNonZeroCounter(Counters) ==
  LET Res == SmallestNonZeroLoop(Counters, Len(Counters))
  IN  [value |-> Res, asserted |-> Res # 0]

\* a lookup that creates the entry it does not find, as operator[] does
Get_inserting(T, InputSha1) ==
  [found |-> TRUE, trace |-> IF InputSha1 \in DOMAIN T THEN T[InputSha1] ELSE <<>>,
   traces |-> [h \in DOMAIN T \cup {InputSha1} |-> IF h \in DOMAIN T THEN T[h] ELSE <<>>]]

\* DataFlowTrace::Get: the stored vector, or nullptr; the table after the call
Get(T, InputSha1) ==
  IF InputSha1 \in DOMAIN T
  THEN [found |-> TRUE, trace |-> T[InputSha1], traces |-> T]
  ELSE [found |-> FALSE, trace |-> <<>>, traces |-> T]

\* BlockCoverage::AppendCoverage: the counters of the record are added to the
\* counters of its function, element by element; a record that does not parse,
\* or whose length differs from the vector already stored for the function,
\* is rejected and nothing is merged
AppendCoverage(F, record) ==
  IF record.malformed THEN [ok |-> FALSE, functions |-> F]
  ELSE IF record.function \notin DOMAIN F
  THEN [ok |-> TRUE,
        functions |-> [f \in DOMAIN F \cup {record.function} |->
                         IF f = record.function THEN record.counts ELSE F[f]]]
  ELSE IF Len(F[record.function]) # Len(record.counts)
  THEN [ok |-> FALSE, functions |-> F]
  ELSE [ok |-> TRUE,
        functions |-> [F EXCEPT ![record.function] =
                         [i \in 1..Len(record.counts) |-> @[i] + record.counts[i]]]]

\* DataFlowTrace::ReadCoverage: the coverage record of every file of the
\* trace directory is appended, in the order of the file names
ReadCoverage(F) ==
  AppendCoverage(AppendCoverage(F, TraceDir["sha1_a"].coverage).functions,
                 TraceDir["sha1_b"].coverage).functions

\* the functions FunctionWeights gives a weight above zero: those with a
\* record that has both covered blocks and blocks still uncovered
FunctionWeights(F) ==
  { f \in DOMAIN F :
      /\ NumberOfCoveredBlocks(F[f], Len(F[f])) > 0
      /\ NumberOfCoveredBlocks(F[f], Len(F[f])) < Len(F[f]) }

\* the rows Init stores: the row of the focus function from each trace file
\* that is named in the corpus
LoadedTraces(T, Focus, CorporaFiles) ==
  [h \in DOMAIN T \cup (DOMAIN TraceDir \cap CorporaFiles) |->
     IF h \in DOMAIN TraceDir \cap CorporaFiles THEN TraceDir[h].rows[Focus] ELSE T[h]]

\* every counter of the table is within the bound of the model
CountersBounded(F) ==
  \A f \in DOMAIN F : \A i \in 1..Len(F[f]) : F[f][i] <= MaxCounter

DftInit ==
  /\ MapInit
  /\ RaceIdle
  /\ EvalIdle
  /\ Functions = <<>>
  /\ Traces = <<>>
  /\ answer = NoAnswer

\* BlockCoverage::AppendCoverage on one record
CallAppendCoverage(record) ==
  /\ LET r == AppendCoverage(Functions, record)
     IN  /\ CountersBounded(r.functions)
         /\ Functions' = r.functions
         /\ answer' = [query |-> "AppendCoverage", ok |-> r.ok, before |-> Functions]
  /\ UNCHANGED <<mapvars, racevars, evalvars, Traces>>

\* DataFlowTrace::Init: without a function list, or with a focus name that is
\* not in it, it fails; without a focus name it reads the coverage of the trace
\* directory and picks a function of nonzero weight, and goes on without a
\* focus function when there is none; it then loads the rows of the focus
\* function from the trace files named in the corpus
CallInit(list_ok, focus, CorporaFiles) ==
  /\ IF ~list_ok \/ (focus.named /\ ~focus.listed)
     THEN /\ answer' = [query |-> "Init", ok |-> FALSE, before |-> Traces]
          /\ UNCHANGED <<Functions, Traces>>
     ELSE IF focus.named
     THEN /\ Traces' = LoadedTraces(Traces, focus.index, CorporaFiles)
          /\ answer' = [query |-> "Init", ok |-> TRUE, before |-> Traces]
          /\ UNCHANGED Functions
     ELSE /\ CountersBounded(ReadCoverage(Functions))
          /\ Functions' = ReadCoverage(Functions)
          /\ IF FunctionWeights(Functions') = {}
             THEN /\ answer' = [query |-> "Init", ok |-> FALSE, before |-> Traces]
                  /\ UNCHANGED Traces
             ELSE \E f \in FunctionWeights(Functions') :
                    /\ Traces' = LoadedTraces(Traces, f, CorporaFiles)
                    /\ answer' = [query |-> "Init", ok |-> TRUE, before |-> Traces]
  /\ UNCHANGED <<mapvars, racevars, evalvars>>

\* DataFlowTrace::ReadCoverage on the trace directory
CallReadCoverage ==
  /\ CountersBounded(ReadCoverage(Functions))
  /\ Functions' = ReadCoverage(Functions)
  /\ answer' = [query |-> "ReadCoverage", before |-> Functions]
  /\ UNCHANGED <<mapvars, racevars, evalvars, Traces>>

CallGetCounter(FunctionId, BasicBlockId) ==
  /\ LET r == GetCounter(Functions, FunctionId, BasicBlockId)
     IN  /\ answer' = [query |-> "GetCounter", function |-> FunctionId,
                       block |-> BasicBlockId, value |-> r.value, before |-> Functions]
         /\ Functions' = r.functions
  /\ UNCHANGED <<mapvars, racevars, evalvars, Traces>>

CallGetNumberOfBlocks(FunctionId) ==
  /\ LET r == GetNumberOfBlocks(Functions, FunctionId)
     IN  /\ answer' = [query |-> "GetNumberOfBlocks", function |-> FunctionId,
                       value |-> r.value, before |-> Functions]
         /\ Functions' = r.functions
  /\ UNCHANGED <<mapvars, racevars, evalvars, Traces>>

CallGetNumberOfCoveredBlocks(FunctionId) ==
  /\ LET r == GetNumberOfCoveredBlocks(Functions, FunctionId)
     IN  /\ answer' = [query |-> "GetNumberOfCoveredBlocks", function |-> FunctionId,
                       value |-> r.value, before |-> Functions]
         /\ Functions' = r.functions
  /\ UNCHANGED <<mapvars, racevars, evalvars, Traces>>

\* SmallestNonZeroCounter applied to a coverage vector
CallSmallestNonZeroCounter(Counters, ndebug) ==
  /\ LET r == SmallestNonZeroCounter(Counters)
     IN  answer' = [query |-> "SmallestNonZeroCounter", counters |-> Counters,
                    value |-> r.value, asserted |-> r.asserted,
                    aborted |-> ~r.asserted /\ ~ndebug]
  /\ UNCHANGED <<mapvars, racevars, evalvars, Functions, Traces>>

\* BlockCoverage::clear
CallClearCoverage ==
  /\ Functions' = <<>>
  /\ answer' = [query |-> "clear", before |-> Functions]
  /\ UNCHANGED <<mapvars, racevars, evalvars, Traces>>

CallGet(InputSha1) ==
  /\ LET r == Get(Traces, InputSha1)
     IN  /\ answer' = [query |-> "Get", sha1 |-> InputSha1, found |-> r.found,
                       trace |-> r.trace, before |-> Traces]
         /\ Traces' = r.traces
  /\ UNCHANGED <<mapvars, racevars, evalvars, Functions>>

\* DataFlowTrace::Clear
CallClear ==
  /\ Traces' = <<>>
  /\ answer' = [query |-> "Clear", before |-> Traces]
  /\ UNCHANGED <<mapvars, racevars, evalvars, Functions>>

DftNext ==
  \/ \E record \in CoverageRecords : CallAppendCoverage(record)
  \/ CallReadCoverage
  \/ \E list_ok \in BOOLEAN, focus \in FocusRequests, c \in Corpora :
       CallInit(list_ok, focus, c)
  \/ \E f \in FunctionIds, b \in BasicBlockIds : CallGetCounter(f, b)
  \/ \E f \in FunctionIds : CallGetNumberOfBlocks(f)
  \/ \E f \in FunctionIds : CallGetNumberOfCoveredBlocks(f)
  \/ \E c \in CoverageVectors, ndebug \in BOOLEAN : CallSmallestNonZeroCounter(c, ndebug)
  \/ CallClearCoverage
  \/ \E h \in InputSha1s : CallGet(h)
  \/ CallClear

SpecDft == DftInit /\ [][DftNext]_vars

(***************************************************************************)
(* C14: a function with no coverage record is zero-coverage for every      *)
(* query: for a function id absent from Functions, GetCounter (for every   *)
(* block id), GetNumberOfBlocks and GetNumberOfCoveredBlocks return 0; for *)
(* a function that has a record GetCounter returns 0 for a block id at or  *)
(* beyond the length of its vector; none of the queries changes Functions, *)
(* so NumCoveredFunctions is as before.                                    *)
(***************************************************************************)
CoverageQueries == {"GetCounter", "GetNumberOfBlocks", "GetNumberOfCoveredBlocks"}

C14_AbsentFunctionIsZero ==
  answer.query \in CoverageQueries =>
    /\ answer.function \notin DOMAIN answer.before => answer.value = 0
    /\ (/\ answer.query = "GetCounter"
        /\ answer.function \in DOMAIN answer.before
        /\ answer.block >= Len(answer.before[answer.function])) => answer.value = 0
    /\ Functions = answer.before
    /\ NumCoveredFunctions(Functions) = NumCoveredFunctions(answer.before)

\* GetCounter was asked for a block past the end of a record whose last
\* counter is not zero, in a table without a record for function 2
C14_Witness ==
  /\ answer.query = "GetCounter"
  /\ answer.function \in DOMAIN answer.before
  /\ answer.block >= Len(answer.before[answer.function])
  /\ answer.before[answer.function][Len(answer.before[answer.function])] # 0
  /\ 2 \notin DOMAIN Functions

(***************************************************************************)
(* C15: DataFlowTrace::Get is a read-only lookup: it returns the stored    *)
(* trace vector when the fingerprint is a key of Traces and nullptr        *)
(* otherwise, and leaves Traces as it was; after Clear() it returns        *)
(* nullptr for every fingerprint.                                          *)
(***************************************************************************)
C15_GetIsReadOnly ==
  /\ answer.query = "Get" =>
       /\ answer.found = (answer.sha1 \in DOMAIN answer.before)
       /\ answer.found => answer.trace = answer.before[answer.sha1]
       /\ Traces = answer.before
  /\ answer.query = "Clear" =>
       \A h \in InputSha1s : ~Get(Traces, h).found /\ Get(Traces, h).traces = Traces

\* a lookup that found the two-byte trace of an input
C15_Witness ==
  /\ answer.query = "Get"
  /\ answer.found
  /\ answer.trace = <<1, 0>>
  /\ DOMAIN Traces = {"sha1_a", "sha1_b"}

(***************************************************************************)
(* C18 as stated: for every non-empty coverage vector with at least one    *)
(* nonzero counter, SmallestNonZeroCounter returns the minimum of its      *)
(* nonzero counters and its final assertion holds, also when the first     *)
(* counter of the vector is 0.                                             *)
(***************************************************************************)
C18_SmallestNonZeroCounter ==
  answer.query = "SmallestNonZeroCounter" =>
    LET Counters == answer.counters
    IN  (\E i \in 1..Len(Counters) : Counters[i] # 0) =>
          /\ answer.asserted
          /\ ~answer.aborted
          /\ answer.value # 0
          /\ \E i \in 1..Len(Counters) : answer.value = Counters[i]
          /\ \A i \in 1..Len(Counters) : Counters[i] # 0 => answer.value <= Counters[i]

(***************************************************************************)
(* The selector on its own: cmplog_instrument on one decoded instruction   *)
(***************************************************************************)
OperandSizes == {1, 2, 4, 8}

\* the operands a decoded instruction can carry, of each type and width
SelectOperands ==
  UNION { { [OpInvalid EXCEPT !.size = sz], OpReg(X86_REG_RAX, sz),
            OpImm(U64Of(CmpConst), sz), OpMem(MemAt(X86_REG_RDI), sz) } :
          sz \in OperandSizes }

SelectArgs ==
  { [kind |-> "instrument", instr |-> Insn(id, n, op1, op2)] :
      id \in CmpSubFamily \cup {X86_INS_CALL, X86_INS_MOV}, n \in 0..3,
      op1 \in SelectOperands, op2 \in SelectOperands }

SelectInit ==
  /\ MapInit
  /\ RaceIdle
  /\ DftIdle
  /\ arg \in SelectArgs
  /\ ret = NoRet

\* cmplog_instrument with __afl_cmp_map set: both selectors see the instruction
SelectInstrument ==
  /\ arg.kind = "instrument"
  /\ ret = NoRet
  /\ ret' = [kind |-> "instrument",
             call |-> cmplog_instrument_call(arg.instr),
             cmp |-> cmplog_instrument_cmp_sub(arg.instr)]
  /\ UNCHANGED <<mapvars, racevars, dftvars, arg>>

SelectNext == SelectInstrument

SpecSelect == SelectInit /\ [][SelectNext]_vars

(***************************************************************************)
(* C16 as stated: the selector attaches a comparison callout only to an    *)
(* instruction of the intercepted family with exactly two operands,        *)
(* neither of invalid type, whose two operands have the same width, that   *)
(* width greater than one byte; no instruction with a one-byte second      *)
(* operand is instrumented.                                                *)
(***************************************************************************)
C16_SelectedOperandsMatch ==
  (ret # NoRet /\ ret.kind = "instrument" /\ ret.cmp.attached) =>
    /\ arg.instr.id \in CmpSubFamily
    /\ arg.instr.op_count = 2
    /\ arg.instr.operands[1].type # X86_OP_INVALID
    /\ arg.instr.operands[2].type # X86_OP_INVALID
    /\ arg.instr.operands[1].size = arg.instr.operands[2].size
    /\ arg.instr.operands[1].size > 1
    /\ arg.instr.operands[2].size # 1

(***************************************************************************)
(* C17: each successful capture is exactly one map update confined to its  *)
(* own key: a successful call-site or comparison capture at key k writes   *)
(* exactly one ring slot of key k and the header of key k, and leaves the  *)
(* header and every ring slot of every other key unchanged.                *)
(***************************************************************************)
RingCapacity(type) ==
  IF type = CMP_TYPE_INS THEN CMP_MAP_H
  ELSE IF type = CMP_TYPE_RTN THEN CMP_MAP_RTN_H ELSE 0

\* the bytes of log[k] that slot s of the ring of the given type occupies
SlotBytes(type, s) ==
  LET size == IF type = CMP_TYPE_INS THEN CMP_OPERANDS_SIZE ELSE CMPFN_OPERANDS_SIZE
  IN  {b \in LogBytes : s * size <= b /\ b < (s + 1) * size}

\* the slots of the ring of the given type in which the step changes a byte
SlotsWritten(k, type) ==
  {s \in 0..(RingCapacity(type) - 1) : \E b \in SlotBytes(type, s) : log'[k][b] # log[k][b]}

C17_OneUpdateAtOwnKey ==
  [][\A k \in Keys :
       (CallCaptures(k) \/ CmpCaptures(k)) =>
         /\ CallCaptures(k) =>
              /\ Cardinality(SlotsWritten(k, CMP_TYPE_RTN)) = 1
              /\ \A s \in SlotsWritten(k, CMP_TYPE_RTN) :
                   cmpfn_operands_at(log'[k], s) = RtnCaptureOf(captures'[k])
         /\ CmpCaptures(k) => Cardinality(SlotsWritten(k, CMP_TYPE_INS)) = 1
         /\ headers'[k] # headers[k]
         /\ \A j \in Keys \ {k} : headers'[j] = headers[j] /\ log'[j] = log[j]]_vars

\* both keys hold captures, the ring at key 0 has wrapped and the entry at
\* key 1 has been re-classified
C17_Witness ==
  /\ pc = "idle"
  /\ captures[0] > CMP_MAP_RTN_H
  /\ headers[0].type = CMP_TYPE_RTN
  /\ headers[0].hits > CMP_MAP_RTN_H
  /\ captures[1] > classified[1].count

(***************************************************************************)
(* C19: live-prefix consistency across re-classification.  In every        *)
(* reachable state, for every key k, every ring slot with index below      *)
(* min(hits[k], capacity of the entry's current type) was written by a     *)
(* capture of the entry's current type made since the entry was last       *)
(* (re-)classified: a reader that trusts type and hits never sees a        *)
(* leftover record of the other type.                                      *)
(***************************************************************************)
\* the slots a reader of entry k takes as filled
LivePrefix(k) ==
  {s \in Slots : s < headers[k].hits /\ s < RingCapacity(headers[k].type)}

C19_LivePrefix ==
  \A k \in Keys :
    \A s \in LivePrefix(k) :
      \E n \in (captures[k] - classified[k].count + 1)..captures[k] :
        IF headers[k].type = CMP_TYPE_INS
        THEN cmp_operands_at(log[k], s) = InsCaptureOf(n)
        ELSE cmpfn_operands_at(log[k], s) = RtnCaptureOf(n)

\* an entry re-classified to INS by one comparison capture, with the second
\* buffer of a call-site record left in the bytes of the slot above the live
\* prefix
C19_Witness ==
  \E k \in Keys :
    /\ headers[k].type = CMP_TYPE_INS
    /\ headers[k].hits = 1
    /\ LivePrefix(k) = {0}
    /\ \E n \in 1..MaxCaptures : cmpfn_operands_at(log[k], 0).v1 = RtnCaptureOf(n).v1

(***************************************************************************)
(* One capture on its own: the header update and the slot index of         *)
(* cmplog_call_callout and of cmplog_handle_cmp_sub on a given header      *)
(***************************************************************************)
\* values of the stored counter: around the ring capacities, and up to the
\* largest the field holds
HitsValues ==
  {1, 2, 3, 4, 5, 7, 8, 2^8 - 1, 2^8, 2^16 - 1, 2^16, CMP_HITS_MAX - 1, CMP_HITS_MAX}

\* the number of captures made one after the other on an entry
MaxCaptureSteps == 3

\* the entries the captures start on: cleared, or as h captures of one kind
\* (comparisons of one width) leave a cleared entry.  With the header go the
\* number of captures since the entry was last (re-)classified, the operand
\* width of the capture that (re-)classified it, and the operand width of the
\* capture that last found the counter at 0
CaptureStarts ==
  { [kind |-> "start", capture |-> CMP_TYPE_NONE, size |-> 0, header |-> ClearedHeader,
     count |-> 0, classified |-> 0, learned |-> 0, steps |-> 0] }
  \cup { [kind |-> "start", capture |-> CMP_TYPE_NONE, size |-> 0,
          header |-> [type |-> CMP_TYPE_INS, shape |-> sz - 1, hits |-> h],
          count |-> h, classified |-> sz, learned |-> sz, steps |-> 0] :
         sz \in {2, 4, 8}, h \in HitsValues }
  \cup { [kind |-> "start", capture |-> CMP_TYPE_NONE, size |-> 0,
          header |-> [type |-> CMP_TYPE_RTN, shape |-> 30, hits |-> h],
          count |-> h, classified |-> 0, learned |-> 0, steps |-> 0] :
         h \in HitsValues }

CaptureInit ==
  /\ MapInit
  /\ RaceIdle
  /\ DftIdle
  /\ arg \in CaptureStarts
  /\ ret = NoRet

\* the entry the next capture finds: the one the last capture left
CaptureEntry == IF ret = NoRet THEN arg ELSE ret

\* the run of captures after one more of the given kind and width
CaptureRun(e, type, size) ==
  LET restart == e.header.type # type
  IN  [count      |-> IF restart THEN 1 ELSE e.count + 1,
       classified |-> IF restart THEN size ELSE e.classified,
       learned    |-> IF restart \/ e.count % 2^CMP_HITS_BITS = 0 THEN size ELSE e.learned]

\* lines 99-115 on the entry
CaptureCall ==
  /\ CaptureEntry.steps < MaxCaptureSteps
  /\ LET e   == CaptureEntry
         run == CaptureRun(e, CMP_TYPE_RTN, 0)
     IN  /\ arg' = [kind |-> "capture", capture |-> CMP_TYPE_RTN, size |-> 0,
                    header |-> e.header, count |-> e.count,
                    classified |-> e.classified, learned |-> e.learned, steps |-> e.steps]
         /\ ret' = [kind |-> "capture", header |-> cmplog_call_header(e.header),
                    slot |-> cmplog_rtn_slot(cmplog_call_hits(e.header)),
                    count |-> run.count, classified |-> run.classified,
                    learned |-> run.learned, steps |-> e.steps + 1]
  /\ UNCHANGED <<mapvars, racevars, dftvars>>

\* lines 167-181 on the entry, for a comparison of the given operand width
CaptureCmpSub(size) ==
  /\ CaptureEntry.steps < MaxCaptureSteps
  /\ LET e   == CaptureEntry
         run == CaptureRun(e, CMP_TYPE_INS, size)
     IN  /\ arg' = [kind |-> "capture", capture |-> CMP_TYPE_INS, size |-> size,
                    header |-> e.header, count |-> e.count,
                    classified |-> e.classified, learned |-> e.learned, steps |-> e.steps]
         /\ ret' = [kind |-> "capture", header |-> cmplog_cmp_sub_header(e.header, size),
                    slot |-> cmplog_ins_slot(cmplog_cmp_sub_hits(e.header)),
                    count |-> run.count, classified |-> run.classified,
                    learned |-> run.learned, steps |-> e.steps + 1]
  /\ UNCHANGED <<mapvars, racevars, dftvars>>

CaptureNext == CaptureCall \/ \E size \in {2, 4, 8} : CaptureCmpSub(size)

SpecCapture == CaptureInit /\ [][CaptureNext]_vars

(***************************************************************************)
(* C2 as stated: whenever the header type is INS, shape is the byte width  *)
(* minus one of the comparison capture that most recently (re-)classified  *)
(* the entry, and hits is the number of comparison captures since and      *)
(* including it.                                                           *)
(***************************************************************************)
C2_ShapeAndHits ==
  (ret # NoRet /\ ret.header.type = CMP_TYPE_INS) =>
    /\ ret.header.shape = ret.classified - 1
    /\ ret.header.hits = ret.count

(***************************************************************************)
(* C2 amended: whenever the header type is INS, hits is the number of      *)
(* comparison captures since and including the one that (re-)classified    *)
(* the entry, modulo 2^CMP_HITS_BITS, and shape is the byte width minus    *)
(* one of the comparison capture that last found the counter at 0: the one *)
(* that (re-)classified the entry, or the first one after the counter      *)
(* wrapped around.                                                         *)
(***************************************************************************)
C2_ShapeAndHitsModulo ==
  (ret # NoRet /\ ret.header.type = CMP_TYPE_INS) =>
    /\ ret.header.shape = ret.learned - 1
    /\ ret.header.hits = ret.count % 2^CMP_HITS_BITS

\* an entry whose counter wrapped around and that then took a comparison
\* capture of another width than the one that classified it
C2_Witness ==
  /\ ret # NoRet
  /\ ret.header.type = CMP_TYPE_INS
  /\ ret.count = 2^CMP_HITS_BITS + 1
  /\ ret.header.hits = 1
  /\ ret.learned # ret.classified

(***************************************************************************)
(* C4 as stated: hits never decreases in any step.                         *)
(***************************************************************************)
C4_HitsNeverDecrease ==
  ret # NoRet => ret.header.hits >= arg.header.hits

(***************************************************************************)
(* C4 amended: a capture that keeps the type of the entry raises hits by   *)
(* one, except that from the largest value of the counter (CMP_HITS_MAX)   *)
(* hits goes to 0; a capture that changes the type of the entry (the first *)
(* capture, or one that re-classifies it) leaves hits = 1.                 *)
(***************************************************************************)
C4_HitsRestartOnlyOnReclassification ==
  ret # NoRet =>
    IF ret.header.type # arg.header.type THEN ret.header.hits = 1
    ELSE IF arg.header.hits = CMP_HITS_MAX THEN ret.header.hits = 0
    ELSE ret.header.hits = arg.header.hits + 1

\* an entry whose counter had wrapped around to 0 by comparison captures,
\* re-classified by a call-site capture
C4_Witness ==
  /\ ret # NoRet
  /\ arg.capture = CMP_TYPE_RTN
  /\ arg.header.type = CMP_TYPE_INS
  /\ arg.header.hits = 0
  /\ arg.count = 2^CMP_HITS_BITS
  /\ ret.header.type = CMP_TYPE_RTN
  /\ ret.header.hits = 1

(***************************************************************************)
(* C20 as stated: for every value of the hits counter, the slot index used *)
(* by a capture is (hits before the capture) AND (capacity - 1), which     *)
(* lies in [0, CMP_MAP_H) for comparison captures and in                   *)
(* [0, CMP_MAP_RTN_H) for call-site captures, and the stored hits after    *)
(* the capture is the previous value plus one.                             *)
(***************************************************************************)
C20_SlotFromStoredHits ==
  ret # NoRet =>
    /\ ret.slot = arg.header.hits % RingCapacity(arg.capture)
    /\ ret.slot \in 0..(RingCapacity(arg.capture) - 1)
    /\ ret.header.hits = arg.header.hits + 1

(***************************************************************************)
(* C20 amended: the slot index used by a capture is h AND (capacity - 1),  *)
(* where h is the stored hits before the capture when the entry already    *)
(* has the capture's type and 0 when the capture re-classifies the entry;  *)
(* it lies in [0, CMP_MAP_H) for comparison captures and in                *)
(* [0, CMP_MAP_RTN_H) for call-site captures, and the stored hits after    *)
(* the capture is h + 1 cut to the CMP_HITS_BITS bits of the field: h + 1, *)
(* or 0 when h is CMP_HITS_MAX.                                            *)
(***************************************************************************)
C20_SlotInsideRing ==
  ret # NoRet =>
    LET h == IF arg.header.type = arg.capture THEN arg.header.hits ELSE 0
    IN  /\ ret.slot = h % RingCapacity(arg.capture)
        /\ ret.slot \in 0..(RingCapacity(arg.capture) - 1)
        /\ ret.header.hits = IF h = CMP_HITS_MAX THEN 0 ELSE h + 1

\* a comparison capture on an INS entry whose counter is at its largest
\* value: the last slot of the ring is written and the counter goes to 0
C20_Witness ==
  /\ ret # NoRet
  /\ arg.capture = CMP_TYPE_INS
  /\ arg.header.type = CMP_TYPE_INS
  /\ arg.header.hits = CMP_HITS_MAX
  /\ ret.slot = CMP_MAP_H - 1
  /\ ret.header.hits = 0
=============================================================================
